---- MODULE Spec2Model ----
(***************************************************************************)
(* Account security state machine of node_auth_backend: the users table,   *)
(* and the controller handlers register, verifyEmail, resendVerification,  *)
(* login, forgotPassword, resetPassword, changePassword, getMe and logout  *)
(* together with the protect middleware and the global errorHandler.       *)
(*                                                                         *)
(* Each action is one request handled from its first statement to its     *)
(* response.  Timestamps are milliseconds; the clock starts at 0.          *)
(***************************************************************************)
EXTENDS Integers, Sequences, FiniteSets, TLC

VARIABLES
    users,      \* the users table: a sequence of rows, row i has user_id = i
    now,        \* the wall clock (Date.now() / NOW()), in milliseconds
    ticks,      \* number of clock advances made so far
    nextToken,  \* how many random tokens crypto.randomBytes has produced
    env,        \* process.env: REQUIRE_EMAIL_VERIFICATION and NODE_ENV
    bearer,     \* the bearer token the client holds (the last one issued)
    failed,     \* per account: wrong-password logins since the last success or password change
    last,       \* the last request and the response it got
    inflight,   \* per concurrent request: where its handler stands between two awaits
    limiter     \* authLimiter: how it keys requests, and the hits of each client IP

vars == <<users, now, ticks, nextToken, env, bearer, failed, last, inflight, limiter>>

----------------------------------------------------------------------------
(* Bounds of the model *)

MaxTicks == 1
MaxTokens == 2
MaxFailed == 5
MaxRequests == 2
MaxClients == 2
MaxHits == 7
MaxLogins == 6

(* Program constants *)

NULL == -1

VerificationTtlMs == 24 * 60 * 60 * 1000
ResetTtlMs == 60 * 60 * 1000
LockoutMs == 30 * 60 * 1000
(* a threshold that no run of MaxLogins failed logins reaches *)
LockoutThreshold_unreachable == MaxLogins + 1
LockoutThreshold == 5
JwtExpireMs == 24 * 60 * 60 * 1000
RateLimitWindowMs == 15 * 60 * 1000
RateLimitMax == 5

(* Inputs *)

Emails == {"jane@x.com", "Jane@X.com"}
Names == {"Jane"}
Passwords == {"Secret123!", "Other456!"}
Tokens == 1..MaxTokens
Requests == 1..MaxRequests
TickSteps == {VerificationTtlMs, VerificationTtlMs + 1}
Ips == 1..MaxClients
WindowSteps == {5 * 60 * 1000, RateLimitWindowMs + 1}
LockoutSteps == {LockoutMs - 1, LockoutMs, LockoutMs + 1}
ResetSteps == {ResetTtlMs, ResetTtlMs + 1}

----------------------------------------------------------------------------
(* String.prototype.toLowerCase on the e-mail addresses of the model *)
toLowerCase(s) ==
    IF s = "Jane@X.com" THEN "jane@x.com" ELSE s

(* bcrypt: the hash embeds the cost and is compared by re-hashing *)
bcryptHash(password) == <<"$2b$10$", password>>

bcryptCompare(password, hash) == hash = bcryptHash(password)

(* jwt.sign of {userId, email} with the server secret and expiresIn 24h *)
generateToken(user) ==
    [userId |-> user.user_id, email |-> user.user_email,
     exp |-> now + JwtExpireMs, sig |-> "JWT_SECRET"]

(* the client holds no bearer token *)
NoBearer == [userId |-> NULL, email |-> "", exp |-> NULL, sig |-> ""]

(* ErrorResponse(message, statusCode) *)
ErrorResponse(message, statusCode) ==
    [message |-> message, statusCode |-> statusCode, code |-> "", name |-> "Error"]

(* an error thrown by the pg driver: no statusCode, a PostgreSQL code *)
PgError(message, code) ==
    [message |-> message, statusCode |-> NULL, code |-> code, name |-> "error"]

(* no error was thrown *)
NoError == [message |-> "", statusCode |-> NULL, code |-> "", name |-> ""]

(* errorHandler without the production branch that replaces the message of a
   500 *)
errorHandler_exposesMessage(err) ==
    LET statusCode0 == IF err.statusCode # NULL THEN err.statusCode ELSE 500
        message0 == IF err.message # "" THEN err.message ELSE "Internal Server Error"
        statusCode1 == IF err.name \in {"JsonWebTokenError", "TokenExpiredError"} THEN 401
                       ELSE IF err.code = "ECONNREFUSED" THEN 503
                       ELSE IF err.code \in {"23505", "23503"} THEN 400
                       ELSE statusCode0
        message1 == IF err.name = "TokenExpiredError" THEN "Token has expired"
                    ELSE IF err.name = "JsonWebTokenError" THEN "Invalid token"
                    ELSE IF err.code = "ECONNREFUSED" THEN "Database connection failed"
                    ELSE IF err.code = "23503" THEN "Referenced record does not exist"
                    ELSE IF err.code = "23505" THEN "A record with this value already exists"
                    ELSE message0
    IN  [status |-> statusCode1, success |-> FALSE, message |-> message1,
         data |-> <<>>, stack |-> env.NODE_ENV = "development"]

(* the global error handler: status and message of the error response; each
   of its if statements overrides the ones before it *)
errorHandler(err) ==
    LET statusCode0 == IF err.statusCode # NULL THEN err.statusCode ELSE 500
        message0 == IF err.message # "" THEN err.message ELSE "Internal Server Error"
        statusCode1 == IF err.name \in {"JsonWebTokenError", "TokenExpiredError"} THEN 401
                       ELSE IF err.code = "ECONNREFUSED" THEN 503
                       ELSE IF err.code \in {"23505", "23503"} THEN 400
                       ELSE statusCode0
        message1 == IF err.name = "TokenExpiredError" THEN "Token has expired"
                    ELSE IF err.name = "JsonWebTokenError" THEN "Invalid token"
                    ELSE IF err.code = "ECONNREFUSED" THEN "Database connection failed"
                    ELSE IF err.code = "23503" THEN "Referenced record does not exist"
                    ELSE IF err.code = "23505" THEN "A record with this value already exists"
                    ELSE message0
        message2 == IF env.NODE_ENV = "production" /\ statusCode1 = 500
                    THEN "Internal Server Error" ELSE message1
    IN  [status |-> statusCode1, success |-> FALSE, message |-> message2,
         data |-> <<>>, stack |-> env.NODE_ENV = "development"]

(* res.status(s).json({success: true, message, data}) *)
Success(statusCode, message, data) ==
    [status |-> statusCode, success |-> TRUE, message |-> message,
     data |-> data, stack |-> FALSE]

----------------------------------------------------------------------------
(* The users table *)

UserIds == 1..Len(users)

(* InsertUser without the verification_token_expires column *)
InsertUser_noExpiry(id, name, email, hash, verificationToken, verificationExpires) ==
    [user_id |-> id,
     user_name |-> name,
     user_email |-> email,
     user_password |-> hash,
     is_verified |-> FALSE,
     verification_token |-> verificationToken,
     verification_token_expires |-> NULL,
     reset_password_token |-> NULL,
     reset_password_expires |-> NULL,
     login_attempts |-> 0,
     lockout_until |-> NULL,
     updated_at |-> now]

(* InsertUser with is_verified defaulting to TRUE *)
InsertUser_verified(id, name, email, hash, verificationToken, verificationExpires) ==
    [user_id |-> id,
     user_name |-> name,
     user_email |-> email,
     user_password |-> hash,
     is_verified |-> TRUE,
     verification_token |-> verificationToken,
     verification_token_expires |-> verificationExpires,
     reset_password_token |-> NULL,
     reset_password_expires |-> NULL,
     login_attempts |-> 0,
     lockout_until |-> NULL,
     updated_at |-> now]

(* INSERT INTO users (user_name, user_email, user_password,
   verification_token, verification_token_expires): the other columns take
   their defaults *)
InsertUser(id, name, email, hash, verificationToken, verificationExpires) ==
    [user_id |-> id,
     user_name |-> name,
     user_email |-> email,
     user_password |-> hash,
     is_verified |-> FALSE,
     verification_token |-> verificationToken,
     verification_token_expires |-> verificationExpires,
     reset_password_token |-> NULL,
     reset_password_expires |-> NULL,
     login_attempts |-> 0,
     lockout_until |-> NULL,
     updated_at |-> now]

(* UserCheck without email.toLowerCase() *)
UserCheck_caseSensitive(email) ==
    {id \in UserIds : users[id].user_email = email}

(* register: SELECT user_id FROM users WHERE user_email = $1,
   with $1 = email.toLowerCase() *)
UserCheck(email) ==
    {id \in UserIds : users[id].user_email = toLowerCase(email)}

(* a users table whose user_email column is not UNIQUE *)
ViolatesUniqueEmail_never(email) == FALSE

(* user_email VARCHAR(255) NOT NULL UNIQUE: an INSERT of an e-mail that a
   row already holds is rejected with error 23505 *)
ViolatesUniqueEmail(email) ==
    \E id \in UserIds : users[id].user_email = email

(* SELECT ... FROM users WHERE user_email = $1, with $1 = email.toLowerCase() *)
getUserByEmail(email) ==
    {id \in UserIds : users[id].user_email = toLowerCase(email)}

(* SELECT ... FROM users WHERE verification_token = $1 *)
UsersByVerificationToken(token) ==
    {id \in UserIds : users[id].verification_token = token}

(* the SELECT of resetPassword without its WHERE reset_password_token = $1:
   every row with a reset token outstanding *)
UsersByResetToken_any(token) ==
    {id \in UserIds : users[id].reset_password_token # NULL}

(* SELECT ... FROM users WHERE reset_password_token = $1 *)
UsersByResetToken(token) ==
    {id \in UserIds : users[id].reset_password_token = token}

(* result.rows[0] *)
FirstRow(ids) == CHOOSE id \in ids : \A other \in ids : id <= other

(* SetVerified that also resets the failed-login counter *)
SetVerified_resetsAttempts(id) ==
    [users EXCEPT ![id].is_verified = TRUE,
                  ![id].verification_token = NULL,
                  ![id].verification_token_expires = NULL,
                  ![id].login_attempts = 0,
                  ![id].updated_at = now]

(* SetVerified without verification_token_expires = NULL *)
SetVerified_keepsExpiry(id) ==
    [users EXCEPT ![id].is_verified = TRUE,
                  ![id].verification_token = NULL,
                  ![id].updated_at = now]

(* UPDATE users SET is_verified = true, verification_token = NULL,
   verification_token_expires = NULL, updated_at = NOW() WHERE user_id = $1 *)
SetVerified(id) ==
    [users EXCEPT ![id].is_verified = TRUE,
                  ![id].verification_token = NULL,
                  ![id].verification_token_expires = NULL,
                  ![id].updated_at = now]

(* SetVerificationToken that leaves the expiry of the previous token *)
SetVerificationToken_keepsExpiry(id, verificationToken, verificationExpires) ==
    [users EXCEPT ![id].verification_token = verificationToken,
                  ![id].updated_at = now]

(* UPDATE users SET verification_token = $1, verification_token_expires = $2,
   updated_at = NOW() WHERE user_id = $3 *)
SetVerificationToken(id, verificationToken, verificationExpires) ==
    [users EXCEPT ![id].verification_token = verificationToken,
                  ![id].verification_token_expires = verificationExpires,
                  ![id].updated_at = now]

(* SetResetToken whose first parameter lands in user_email *)
SetResetToken_overwritesEmail(id, resetToken, resetExpires) ==
    [users EXCEPT ![id].user_email = ToString(resetToken),
                  ![id].reset_password_expires = resetExpires,
                  ![id].updated_at = now]

(* SetResetToken that also resets the failed-login counter *)
SetResetToken_resetsAttempts(id, resetToken, resetExpires) ==
    [users EXCEPT ![id].reset_password_token = resetToken,
                  ![id].reset_password_expires = resetExpires,
                  ![id].login_attempts = 0,
                  ![id].updated_at = now]

(* UPDATE users SET reset_password_token = $1, reset_password_expires = $2,
   updated_at = NOW() WHERE user_id = $3 *)
SetResetToken(id, resetToken, resetExpires) ==
    [users EXCEPT ![id].reset_password_token = resetToken,
                  ![id].reset_password_expires = resetExpires,
                  ![id].updated_at = now]

(* ResetLoginAttempts without lockout_until = NULL *)
ResetLoginAttempts_keepsLockout(id) ==
    [users EXCEPT ![id].login_attempts = 0]

(* UPDATE users SET login_attempts = 0, lockout_until = NULL WHERE user_id = $1 *)
ResetLoginAttempts(id) ==
    [users EXCEPT ![id].login_attempts = 0,
                  ![id].lockout_until = NULL]

(* SetPasswordByReset that leaves reset_password_expires in place *)
SetPasswordByReset_keepsExpiry(id, hashedPassword) ==
    [users EXCEPT ![id].user_password = hashedPassword,
                  ![id].reset_password_token = NULL,
                  ![id].login_attempts = 0,
                  ![id].lockout_until = NULL,
                  ![id].updated_at = now]

(* SetPasswordByReset without login_attempts = 0, lockout_until = NULL *)
SetPasswordByReset_keepsLockout(id, hashedPassword) ==
    [users EXCEPT ![id].user_password = hashedPassword,
                  ![id].reset_password_token = NULL,
                  ![id].reset_password_expires = NULL,
                  ![id].updated_at = now]

(* resetPassword: UPDATE users SET user_password = $1, reset_password_token = NULL,
   reset_password_expires = NULL, login_attempts = 0, lockout_until = NULL,
   updated_at = NOW() WHERE user_id = $2 *)
SetPasswordByReset(id, hashedPassword) ==
    [users EXCEPT ![id].user_password = hashedPassword,
                  ![id].reset_password_token = NULL,
                  ![id].reset_password_expires = NULL,
                  ![id].login_attempts = 0,
                  ![id].lockout_until = NULL,
                  ![id].updated_at = now]

(* SetPasswordByChange without login_attempts = 0, lockout_until = NULL *)
SetPasswordByChange_keepsLockout(id, hashedPassword) ==
    [users EXCEPT ![id].user_password = hashedPassword,
                  ![id].updated_at = now]

(* changePassword: UPDATE users SET user_password = $1, login_attempts = 0,
   lockout_until = NULL, updated_at = NOW() WHERE user_id = $2 *)
SetPasswordByChange(id, hashedPassword) ==
    [users EXCEPT ![id].user_password = hashedPassword,
                  ![id].login_attempts = 0,
                  ![id].lockout_until = NULL,
                  ![id].updated_at = now]

(* VerificationExpired that takes every token for expired *)
VerificationExpired_always(user) ==
    user.verification_token_expires # NULL

(* VerificationExpired with the comparison turned round *)
VerificationExpired_reversed(user) ==
    /\ user.verification_token_expires # NULL
    /\ user.verification_token_expires > now

(* user.verification_token_expires && new Date(...) < new Date() *)
VerificationExpired(user) ==
    /\ user.verification_token_expires # NULL
    /\ user.verification_token_expires < now

(* ResetExpired that never finds a token expired *)
ResetExpired_never(user) == FALSE

(* user.reset_password_expires && new Date(...) < new Date() *)
ResetExpired(user) ==
    /\ user.reset_password_expires # NULL
    /\ user.reset_password_expires < now

(* IsLocked with the comparison turned round *)
IsLocked_reversed(user) ==
    /\ user.lockout_until # NULL
    /\ user.lockout_until < now

(* user.lockout_until && new Date(user.lockout_until) > new Date() *)
IsLocked(user) ==
    /\ user.lockout_until # NULL
    /\ user.lockout_until > now

(* remainingMinutes with Math.floor in place of Math.ceil *)
remainingMinutes_roundsDown(user) ==
    (user.lockout_until - now) \div 60000

(* Math.ceil((new Date(user.lockout_until) - new Date()) / 60000) *)
remainingMinutes(user) ==
    LET ms == user.lockout_until - now
    IN  IF ms % 60000 = 0 THEN ms \div 60000 ELSE (ms \div 60000) + 1

----------------------------------------------------------------------------
(* The failed-login UPDATE of login, as the pg driver and PostgreSQL run it *)

Param(type, value) == [type |-> type, value |-> value]

(* `UPDATE users SET login_attempts = $1${lockoutUpdate} WHERE user_id = $2`:
   lockoutUpdate is ', lockout_until = $3' when newAttempts >= 5, else '' *)
FailedLoginSql(newAttempts) ==
    [set |-> IF newAttempts >= LockoutThreshold
             THEN <<"login_attempts", "lockout_until">> ELSE <<"login_attempts">>,
     setParam |-> IF newAttempts >= LockoutThreshold THEN <<1, 3>> ELSE <<1>>,
     whereParam |-> 2]

(* newAttempts > 5 ? [5, lockoutUntil, user.user_id] : [newAttempts, user.user_id] *)
FailedLoginParams(newAttempts, lockoutUntil, user) ==
    IF newAttempts > LockoutThreshold
    THEN <<Param("integer", LockoutThreshold), Param("timestamp", lockoutUntil),
           Param("uuid", user.user_id)>>
    ELSE <<Param("integer", newAttempts), Param("uuid", user.user_id)>>

(* the column types of the users table that the statement touches *)
ColumnType(column) ==
    IF column = "login_attempts" THEN "integer"
    ELSE IF column = "lockout_until" THEN "timestamp"
    ELSE "uuid"

(* the placeholders a statement refers to *)
Placeholders(sql) ==
    {sql.setParam[i] : i \in 1..Len(sql.setParam)} \cup {sql.whereParam}

(* the row after SET column = value *)
SetColumn(row, column, value) ==
    IF column = "login_attempts" THEN [row EXCEPT !.login_attempts = value]
    ELSE [row EXCEPT !.lockout_until = value]

RECURSIVE ApplySet(_, _, _, _)
ApplySet(row, sql, params, i) ==
    IF i > Len(sql.set) THEN row
    ELSE ApplySet(SetColumn(row, sql.set[i], params[sql.setParam[i]].value), sql, params, i + 1)

(* pool.query(text, params): PostgreSQL rejects the bind when the number of
   values differs from the number of placeholders (08P01) or when a value does
   not parse as its column's type (22P02); otherwise every row whose user_id
   equals the WHERE parameter is updated *)
pgQuery(sql, params) ==
    IF Len(params) # Cardinality(Placeholders(sql))
    THEN [ok |-> FALSE, rows |-> users,
          error |-> PgError("bind message supplies a wrong number of parameters", "08P01")]
    ELSE IF \/ params[sql.whereParam].type # "uuid"
            \/ \E i \in 1..Len(sql.set) : params[sql.setParam[i]].type # ColumnType(sql.set[i])
    THEN [ok |-> FALSE, rows |-> users, error |-> PgError("invalid input syntax", "22P02")]
    ELSE [ok |-> TRUE, rows |-> [id \in UserIds |->
                      IF id = params[sql.whereParam].value
                              THEN ApplySet(users[id], sql, params, 1) ELSE users[id]],
          error |-> NoError]

----------------------------------------------------------------------------
(* requireEmailVerification compared with the boolean true: never set *)
requireEmailVerification_never == FALSE

(* process.env.REQUIRE_EMAIL_VERIFICATION === 'true' *)
requireEmailVerification == env.REQUIRE_EMAIL_VERIFICATION

----------------------------------------------------------------------------
(* The protect middleware *)

(* what the Authorization header of a request carries *)
Authorizations ==
    {"none", "forged"} \cup (IF bearer = NoBearer THEN {} ELSE {"bearer"})

(* req.user is not set *)
NoIdentity == [userId |-> NULL, email |-> ""]

(* protect with jwt.verify(..., {ignoreExpiration: true}) *)
protect_ignoresExpiry(auth) ==
    IF auth = "none"
    THEN [ok |-> FALSE, error |-> ErrorResponse("Not authorized to access this route", 401),
          user |-> NoIdentity]
    ELSE IF auth = "forged"
    THEN [ok |-> FALSE, error |-> ErrorResponse("Invalid token", 401), user |-> NoIdentity]
    ELSE [ok |-> TRUE, error |-> NoError,
          user |-> [userId |-> bearer.userId, email |-> bearer.email]]

(* jwt.verify(token, JWT_SECRET) and the identity put in req.user *)
protect(auth) ==
    IF auth = "none"
    THEN [ok |-> FALSE, error |-> ErrorResponse("Not authorized to access this route", 401),
          user |-> NoIdentity]
    ELSE IF auth = "forged"
    THEN [ok |-> FALSE, error |-> ErrorResponse("Invalid token", 401), user |-> NoIdentity]
    ELSE IF now >= bearer.exp
    THEN [ok |-> FALSE, error |-> ErrorResponse("Token has expired", 401), user |-> NoIdentity]
    ELSE [ok |-> TRUE, error |-> NoError,
          user |-> [userId |-> bearer.userId, email |-> bearer.email]]

----------------------------------------------------------------------------
(* handleValidation: the answer to a request that breaks a validation rule *)
ValidationFailed ==
    [status |-> 400, success |-> FALSE, message |-> "Validation failed",
     data |-> <<>>, stack |-> FALSE]

(* changePasswordValidation, the custom rule of newPassword:
   value === req.body.currentPassword is rejected *)
changePasswordValid(currentPassword, newPassword) ==
    newPassword # currentPassword

Request(op, body) == [op |-> op, body |-> body]

(* no e-mail was dispatched *)
NoMail == [kind |-> "none", to |-> "", token |-> NULL, delivered |-> FALSE, thrown |-> FALSE]

(* transporter.sendMail resolves (delivered) or rejects *)
Deliveries == BOOLEAN

(* sendEmail({to, subject, html}): a rejection of transporter.sendMail is
   logged and answered {success: false} in development, rethrown otherwise *)
sendEmail(kind, to, token, delivered) ==
    [kind |-> kind, to |-> to, token |-> token, delivered |-> delivered,
     thrown |-> ~delivered /\ env.NODE_ENV # "development"]

(* tryDispatch without the catch: the error of sendEmail reaches next(error) *)
tryDispatch_propagates(mail, res) ==
    IF mail.thrown THEN errorHandler(ErrorResponse("Connection timeout", NULL)) ELSE res

(* try { await send...Email(...) } catch (emailError) { console.error(...) }:
   the handler goes on to its response whether or not the dispatch threw *)
tryDispatch(mail, res) == res

(* the handler answers without dispatching an e-mail *)
Respond(req, res) == last' = [req |-> req, res |-> res, mail |-> NoMail]

(* the handler dispatches an e-mail and then answers *)
RespondAfterMail(req, res, mail) ==
    last' = [req |-> req, res |-> tryDispatch(mail, res), mail |-> mail]

(* process.env of the two deployments of the model: production, which makes
   e-mail verification mandatory, and development (the README's .env), which
   leaves REQUIRE_EMAIL_VERIFICATION unset.  No handler reads both settings. *)
InitEnv ==
    {[REQUIRE_EMAIL_VERIFICATION |-> TRUE, NODE_ENV |-> "production"],
     [REQUIRE_EMAIL_VERIFICATION |-> FALSE, NODE_ENV |-> "development"]}

NoRequest == [req |-> Request("none", <<>>), res |-> Success(0, "", <<>>), mail |-> NoMail]

(* a request whose handler has not started *)
Idle ==
    [op |-> "none", pc |-> "idle", token |-> NULL, expires |-> NULL,
     newPassword |-> "", user_id |-> NULL, applied |-> FALSE]

(* no handler is suspended at an await *)
NoInflight == [r \in Requests |-> Idle]

(* the limiter's store before the first request *)
NoHits == [ip \in Ips |-> [totalHits |-> 0, resetTime |-> 0]]

(* the limiter as the specifications that leave it out carry it: they take
   every request from a client that has requests left in its window *)
NoLimiter == [keyBy |-> "ip", hits |-> NoHits]

Init ==
    /\ inflight = NoInflight
    /\ limiter = NoLimiter
    /\ users = <<>>
    /\ now = 0
    /\ ticks = 0
    /\ nextToken = 0
    /\ env \in InitEnv
    /\ bearer = NoBearer
    /\ failed = <<>>
    /\ last = NoRequest

(* the clock advances by one of the given amounts *)
Advance(steps) ==
    /\ ticks < MaxTicks
    /\ \E d \in steps : now' = now + d
    /\ ticks' = ticks + 1
    /\ UNCHANGED <<users, nextToken, env, bearer, failed, last, inflight, limiter>>

(* time passes: up to or just past the expiry of a token *)
Tick == Advance(TickSteps)

(* time passes: up to or just past the end of a lockout *)
TickLockout == Advance(LockoutSteps)

(* POST /api/auth/register *)
register ==
    \E name \in Names, email \in Emails, password \in Passwords :
        LET req == Request("register", [name |-> name, email |-> email, password |-> password])
            userCheck == UserCheck(email)
        IN  IF userCheck # {}
            THEN /\ Respond(req, errorHandler(ErrorResponse("User with this email already exists", 400)))
                 /\ UNCHANGED <<users, now, ticks, nextToken, env, bearer, failed, inflight, limiter>>
            ELSE /\ nextToken < MaxTokens
                 /\ LET verificationToken == nextToken + 1
                        verificationExpires == now + VerificationTtlMs
                        user == InsertUser(Len(users) + 1, name, toLowerCase(email),
                                           bcryptHash(password), verificationToken,
                                           verificationExpires)
                    IN  /\ nextToken' = verificationToken
                        /\ IF ViolatesUniqueEmail(user.user_email)
                           THEN /\ Respond(req, errorHandler(PgError(
                                       "duplicate key value violates unique constraint", "23505")))
                                /\ UNCHANGED <<users, failed, inflight, limiter>>
                           ELSE /\ users' = Append(users, user)
                                /\ failed' = Append(failed, 0)
                                /\ \E delivered \in Deliveries :
                                     RespondAfterMail(req, Success(201,
                                       "User registered successfully. Please check your email to verify your account.",
                                       [requiresVerification |-> TRUE,
                                        user |-> [id |-> user.user_id, name |-> user.user_name,
                                                  email |-> user.user_email]]),
                                       sendEmail("verification", email, verificationToken, delivered))
                 /\ UNCHANGED <<now, ticks, env, bearer, inflight, limiter>>

(* POST /api/auth/verify-email *)
verifyEmail ==
    \E token \in Tokens :
        LET req == Request("verifyEmail", [token |-> token])
            result == UsersByVerificationToken(token)
        IN  IF result = {}
            THEN /\ Respond(req, errorHandler(ErrorResponse("Invalid verification token", 400)))
                 /\ UNCHANGED <<users, now, ticks, nextToken, env, bearer, failed, inflight, limiter>>
            ELSE LET user == users[FirstRow(result)]
                 IN  IF user.is_verified
                     THEN /\ Respond(req, Success(200, "Email is already verified. You can log in now.", <<>>))
                          /\ UNCHANGED <<users, now, ticks, nextToken, env, bearer, failed, inflight, limiter>>
                     ELSE IF VerificationExpired(user)
                     THEN /\ Respond(req, errorHandler(ErrorResponse(
                                 "Verification token has expired. Please request a new verification email.", 400)))
                          /\ UNCHANGED <<users, now, ticks, nextToken, env, bearer, failed, inflight, limiter>>
                     ELSE /\ users' = SetVerified(user.user_id)
                          /\ Respond(req, Success(200, "Email verified successfully! You can now log in.", <<>>))
                          /\ UNCHANGED <<now, ticks, nextToken, env, bearer, failed, inflight, limiter>>

(* resendVerificationResponse that tells a caller the e-mail is unknown *)
resendVerificationResponse_reveals ==
    IF users = <<>> THEN errorHandler(ErrorResponse("User not found", 404))
    ELSE Success(200,
           "If an account with that email exists and needs verification, a new email has been sent.",
           <<>>)

(* resendVerification, step 4: the one res.status(200).json of the handler *)
resendVerificationResponse ==
    Success(200,
      "If an account with that email exists and needs verification, a new email has been sent.",
      <<>>)

(* POST /api/auth/resend-verification *)
resendVerification ==
    \E email \in Emails :
        LET req == Request("resendVerification", [email |-> email])
            found == getUserByEmail(email)
            res == resendVerificationResponse
        IN  IF found # {} /\ ~users[FirstRow(found)].is_verified
            THEN /\ nextToken < MaxTokens
                 /\ LET verificationToken == nextToken + 1
                        verificationExpires == now + VerificationTtlMs
                    IN  /\ users' = SetVerificationToken(FirstRow(found), verificationToken,
                                                         verificationExpires)
                        /\ nextToken' = verificationToken
                        /\ \E delivered \in Deliveries :
                             RespondAfterMail(req, res,
                                 sendEmail("verification", email, verificationToken, delivered))
                 /\ UNCHANGED <<now, ticks, env, bearer, failed, inflight, limiter>>
            ELSE /\ Respond(req, res)
                 /\ UNCHANGED <<users, now, ticks, nextToken, env, bearer, failed, inflight, limiter>>

(* POST /api/auth/login *)
login ==
    \E email \in Emails, password \in Passwords :
        LET req == Request("login", [email |-> email, password |-> password])
            found == getUserByEmail(email)
        IN  IF found = {}
            THEN /\ Respond(req, errorHandler(ErrorResponse("Invalid credentials", 401)))
                 /\ UNCHANGED <<users, now, ticks, nextToken, env, bearer, failed, inflight, limiter>>
            ELSE LET user == users[FirstRow(found)]
                 IN  IF IsLocked(user)
                     THEN /\ Respond(req, [errorHandler(ErrorResponse(
                                 "Account is temporarily locked. Please try again in ${remainingMinutes} minutes.",
                                 423)) EXCEPT !.data = [remainingMinutes |-> remainingMinutes(user)]])
                          /\ UNCHANGED <<users, now, ticks, nextToken, env, bearer, failed, inflight, limiter>>
                     ELSE IF ~bcryptCompare(password, user.user_password)
                     THEN LET newAttempts == user.login_attempts + 1
                              lockoutUntil == now + LockoutMs
                              result == pgQuery(FailedLoginSql(newAttempts),
                                                FailedLoginParams(newAttempts, lockoutUntil, user))
                          IN  /\ failed[user.user_id] < MaxFailed
                              /\ failed' = [failed EXCEPT ![user.user_id] = @ + 1]
                              /\ users' = result.rows
                              /\ IF result.ok
                                 THEN Respond(req, errorHandler(ErrorResponse("Invalid credentials", 401)))
                                 ELSE Respond(req, errorHandler(result.error))
                              /\ UNCHANGED <<now, ticks, nextToken, env, bearer, inflight, limiter>>
                     ELSE IF requireEmailVerification /\ ~user.is_verified
                     THEN /\ Respond(req, errorHandler(ErrorResponse(
                                 "Please verify your email before logging in. Check your inbox for the verification link.",
                                 403)))
                          /\ UNCHANGED <<users, now, ticks, nextToken, env, bearer, failed, inflight, limiter>>
                     ELSE /\ users' = ResetLoginAttempts(user.user_id)
                          /\ failed' = [failed EXCEPT ![user.user_id] = 0]
                          /\ bearer' = generateToken(user)
                          /\ Respond(req, Success(200, "Login successful",
                                 [token |-> generateToken(user),
                                  user |-> [id |-> user.user_id, name |-> user.user_name,
                                            email |-> user.user_email,
                                            isVerified |-> user.is_verified]]))
                          /\ UNCHANGED <<now, ticks, nextToken, env, inflight, limiter>>

(* forgotPasswordResponse that tells a caller the e-mail is unknown *)
forgotPasswordResponse_reveals ==
    IF users = <<>> THEN errorHandler(ErrorResponse("User not found", 404))
    ELSE Success(200,
           "If an account with that email exists, a password reset link has been sent.",
           <<>>)

(* forgotPassword, step 4: the one res.status(200).json of the handler *)
forgotPasswordResponse ==
    Success(200,
      "If an account with that email exists, a password reset link has been sent.",
      <<>>)

(* POST /api/auth/forgot-password *)
forgotPassword ==
    \E email \in Emails :
        LET req == Request("forgotPassword", [email |-> email])
            found == getUserByEmail(email)
            res == forgotPasswordResponse
        IN  IF found # {}
            THEN /\ nextToken < MaxTokens
                 /\ LET resetToken == nextToken + 1
                        resetExpires == now + ResetTtlMs
                    IN  /\ users' = SetResetToken(FirstRow(found), resetToken, resetExpires)
                        /\ nextToken' = resetToken
                        /\ \E delivered \in Deliveries :
                             RespondAfterMail(req, res,
                                 sendEmail("passwordReset", email, resetToken, delivered))
                 /\ UNCHANGED <<now, ticks, env, bearer, failed, inflight, limiter>>
            ELSE /\ Respond(req, res)
                 /\ UNCHANGED <<users, now, ticks, nextToken, env, bearer, failed, inflight, limiter>>

(* POST /api/auth/reset-password *)
resetPassword ==
    \E token \in Tokens, newPassword \in Passwords :
        LET req == Request("resetPassword", [token |-> token, newPassword |-> newPassword])
            result == UsersByResetToken(token)
        IN  IF result = {}
            THEN /\ Respond(req, errorHandler(ErrorResponse("Invalid or expired reset token", 400)))
                 /\ UNCHANGED <<users, now, ticks, nextToken, env, bearer, failed, inflight, limiter>>
            ELSE LET user == users[FirstRow(result)]
                 IN  IF ResetExpired(user)
                     THEN /\ Respond(req, errorHandler(ErrorResponse(
                                 "Reset token has expired. Please request a new password reset.", 400)))
                          /\ UNCHANGED <<users, now, ticks, nextToken, env, bearer, failed, inflight, limiter>>
                     ELSE /\ users' = SetPasswordByReset(user.user_id, bcryptHash(newPassword))
                          /\ failed' = [failed EXCEPT ![user.user_id] = 0]
                          /\ \E delivered \in Deliveries :
                               RespondAfterMail(req, Success(200,
                                 "Password has been reset successfully. Please log in with your new password.",
                                 <<>>),
                                 sendEmail("passwordChanged", user.user_email, NULL, delivered))
                          /\ UNCHANGED <<now, ticks, nextToken, env, bearer, inflight, limiter>>

(* GET /api/auth/me, behind protect *)
getMe ==
    \E auth \in Authorizations :
        LET req == Request("getMe", [authorization |-> auth])
            checked == protect(auth)
        IN  /\ IF ~checked.ok
               THEN Respond(req, errorHandler(checked.error))
               ELSE IF checked.user.userId \notin UserIds
               THEN Respond(req, errorHandler(ErrorResponse("User not found", 404)))
               ELSE LET user == users[checked.user.userId]
                    IN  Respond(req, Success(200, "",
                            [id |-> user.user_id, name |-> user.user_name,
                             email |-> user.user_email, isVerified |-> user.is_verified,
                             updatedAt |-> user.updated_at]))
            /\ UNCHANGED <<users, now, ticks, nextToken, env, bearer, failed, inflight, limiter>>

(* logout that also takes the presented token out of use *)
logout_revokes ==
    \E auth \in Authorizations :
        LET req == Request("logout", [authorization |-> auth])
            checked == protect(auth)
        IN  /\ IF ~checked.ok
               THEN /\ Respond(req, errorHandler(checked.error))
                    /\ bearer' = bearer
               ELSE /\ Respond(req, Success(200,
                        "Logged out successfully. Please remove the token from client storage.",
                        <<>>))
                    /\ bearer' = [bearer EXCEPT !.exp = now]
            /\ UNCHANGED <<users, now, ticks, nextToken, env, failed, inflight, limiter>>

(* POST /api/auth/logout, behind protect *)
logout ==
    \E auth \in Authorizations :
        LET req == Request("logout", [authorization |-> auth])
            checked == protect(auth)
        IN  /\ IF ~checked.ok
               THEN Respond(req, errorHandler(checked.error))
               ELSE Respond(req, Success(200,
                        "Logged out successfully. Please remove the token from client storage.",
                        <<>>))
            /\ UNCHANGED <<users, now, ticks, nextToken, env, bearer, failed, inflight, limiter>>

(* POST /api/auth/change-password, behind protect *)
changePassword ==
    \E auth \in Authorizations :
        LET checked == protect(auth)
        IN  IF ~checked.ok
            THEN /\ Respond(Request("changePassword", [authorization |-> auth]),
                            errorHandler(checked.error))
                 /\ UNCHANGED <<users, now, ticks, nextToken, env, bearer, failed, inflight, limiter>>
            ELSE \E currentPassword \in Passwords, newPassword \in Passwords :
                 LET req == Request("changePassword", [authorization |-> auth,
                                currentPassword |-> currentPassword,
                                newPassword |-> newPassword])
                 IN  IF ~changePasswordValid(currentPassword, newPassword)
                     THEN /\ Respond(req, ValidationFailed)
                          /\ UNCHANGED <<users, now, ticks, nextToken, env, bearer, failed, inflight, limiter>>
                     ELSE IF checked.user.userId \notin UserIds
                     THEN /\ Respond(req, errorHandler(ErrorResponse("User not found", 404)))
                          /\ UNCHANGED <<users, now, ticks, nextToken, env, bearer, failed, inflight, limiter>>
                     ELSE LET user == users[checked.user.userId]
                          IN  IF ~bcryptCompare(currentPassword, user.user_password)
                              THEN /\ Respond(req, errorHandler(ErrorResponse(
                                          "Current password is incorrect", 401)))
                                   /\ UNCHANGED <<users, now, ticks, nextToken, env, bearer, failed, inflight, limiter>>
                              ELSE /\ users' = SetPasswordByChange(user.user_id,
                                                                   bcryptHash(newPassword))
                                   /\ failed' = [failed EXCEPT ![user.user_id] = 0]
                                   /\ \E delivered \in Deliveries :
                                        RespondAfterMail(req, Success(200,
                                          "Password changed successfully. Please log in again with your new password.",
                                          <<>>),
                                          sendEmail("passwordChanged", user.user_email, NULL, delivered))
                                   /\ UNCHANGED <<now, ticks, nextToken, env, bearer, inflight, limiter>>

Next ==
    \/ Tick
    \/ register
    \/ verifyEmail
    \/ resendVerification
    \/ login
    \/ forgotPassword
    \/ resetPassword
    \/ getMe
    \/ logout
    \/ changePassword

Spec == Init /\ [][Next]_vars

----------------------------------------------------------------------------
(* The handlers that read or clear a lockout, over the rows the users table
   can hold: the store is persistent, and the handlers read whatever row an
   earlier deployment or an operator left there.  The table starts with one
   account whose verification flag, failed-attempt count, lockout and
   outstanding reset token are arbitrary; the client may hold a bearer token
   of an earlier session. *)

StoredRows ==
    {[user_id |-> 1,
      user_name |-> "Jane",
      user_email |-> "jane@x.com",
      user_password |-> bcryptHash("Secret123!"),
      is_verified |-> v,
      verification_token |-> NULL,
      verification_token_expires |-> NULL,
      reset_password_token |-> r,
      reset_password_expires |-> IF r = NULL THEN NULL ELSE ResetTtlMs,
      login_attempts |-> a,
      lockout_until |-> l,
      updated_at |-> 0] :
        v \in BOOLEAN, a \in 0..LockoutThreshold, l \in {NULL, LockoutMs},
        r \in {NULL, 1}}

(* the bearer tokens a client of the stored account may hold *)
StoredBearers ==
    {NoBearer,
     [userId |-> 1, email |-> "jane@x.com", exp |-> JwtExpireMs, sig |-> "JWT_SECRET"]}

InitStore ==
    /\ inflight = NoInflight
    /\ limiter = NoLimiter
    /\ \E row \in StoredRows :
          /\ users = <<row>>
          /\ failed = <<0>>
          /\ nextToken = IF row.reset_password_token = NULL THEN 0 ELSE 1
    /\ now = 0
    /\ ticks = 0
    /\ env \in InitEnv
    /\ bearer \in StoredBearers
    /\ last = NoRequest

NextStore ==
    \/ TickLockout
    \/ login
    \/ resetPassword
    \/ changePassword

SpecStore == InitStore /\ [][NextStore]_vars

----------------------------------------------------------------------------
(* Concurrent requests.  A handler is an async function: it runs to its next
   await, and while it waits for the store the handlers of other requests run.
   verifyEmail and resetPassword await their SELECT, decide on the row it
   returned, and then await an UPDATE ... WHERE user_id = $n.  Each of the
   actions below is one such stretch of one request's handler.  The table
   starts as Register followed by ForgotPassword leave it: one unverified
   account with a verification token and a reset token outstanding. *)

(* the handler of a request has answered; applied: its UPDATE changed the row *)
Done(op, token, applied) ==
    [op |-> op, pc |-> "done", token |-> token, expires |-> NULL,
     newPassword |-> "", user_id |-> NULL, applied |-> applied]

(* verifyEmail up to the await of its UPDATE: the SELECT by token and the
   checks on the row it returned *)
verifyEmailSelect(r) ==
    /\ inflight[r].pc = "idle"
    /\ \E token \in Tokens :
          LET req == Request("verifyEmail", [token |-> token])
              result == UsersByVerificationToken(token)
          IN  IF result = {}
              THEN /\ Respond(req, errorHandler(ErrorResponse("Invalid verification token", 400)))
                   /\ inflight' = [inflight EXCEPT ![r] = Done("verifyEmail", token, FALSE)]
              ELSE LET user == users[FirstRow(result)]
                   IN  IF user.is_verified
                       THEN /\ Respond(req, Success(200,
                                   "Email is already verified. You can log in now.", <<>>))
                            /\ inflight' = [inflight EXCEPT ![r] = Done("verifyEmail", token, FALSE)]
                       ELSE IF VerificationExpired(user)
                       THEN /\ Respond(req, errorHandler(ErrorResponse(
                                   "Verification token has expired. Please request a new verification email.", 400)))
                            /\ inflight' = [inflight EXCEPT ![r] = Done("verifyEmail", token, FALSE)]
                       ELSE /\ inflight' = [inflight EXCEPT ![r] =
                                   [op |-> "verifyEmail", pc |-> "update", token |-> token,
                                    expires |-> NULL, newPassword |-> "", user_id |-> user.user_id,
                                    applied |-> FALSE]]
                            /\ last' = last
    /\ UNCHANGED <<users, now, ticks, nextToken, env, bearer, failed, limiter>>

(* verifyEmail from its UPDATE to its response *)
verifyEmailUpdate(r) ==
    /\ inflight[r].op = "verifyEmail"
    /\ inflight[r].pc = "update"
    /\ users' = SetVerified(inflight[r].user_id)
    /\ Respond(Request("verifyEmail", [token |-> inflight[r].token]),
               Success(200, "Email verified successfully! You can now log in.", <<>>))
    /\ inflight' = [inflight EXCEPT ![r] = Done("verifyEmail", inflight[r].token, users' # users)]
    /\ UNCHANGED <<now, ticks, nextToken, env, bearer, failed, limiter>>

(* resetPassword up to the await of its UPDATE: the SELECT by token, the
   expiry check and the hashing of the new password *)
resetPasswordSelect(r) ==
    /\ inflight[r].pc = "idle"
    /\ \E token \in Tokens, newPassword \in Passwords :
          LET req == Request("resetPassword", [token |-> token, newPassword |-> newPassword])
              result == UsersByResetToken(token)
          IN  IF result = {}
              THEN /\ Respond(req, errorHandler(ErrorResponse("Invalid or expired reset token", 400)))
                   /\ inflight' = [inflight EXCEPT ![r] = Done("resetPassword", token, FALSE)]
              ELSE LET user == users[FirstRow(result)]
                   IN  IF ResetExpired(user)
                       THEN /\ Respond(req, errorHandler(ErrorResponse(
                                   "Reset token has expired. Please request a new password reset.", 400)))
                            /\ inflight' = [inflight EXCEPT ![r] = Done("resetPassword", token, FALSE)]
                       ELSE /\ inflight' = [inflight EXCEPT ![r] =
                                   [op |-> "resetPassword", pc |-> "update", token |-> token,
                                    expires |-> NULL, newPassword |-> newPassword, user_id |-> user.user_id,
                                    applied |-> FALSE]]
                            /\ last' = last
    /\ UNCHANGED <<users, now, ticks, nextToken, env, bearer, failed, limiter>>

(* resetPassword from its UPDATE to its response *)
resetPasswordUpdate(r) ==
    /\ inflight[r].op = "resetPassword"
    /\ inflight[r].pc = "update"
    /\ users' = SetPasswordByReset(inflight[r].user_id, bcryptHash(inflight[r].newPassword))
    /\ \E delivered \in Deliveries :
          RespondAfterMail(
              Request("resetPassword", [token |-> inflight[r].token,
                                        newPassword |-> inflight[r].newPassword]),
              Success(200,
                  "Password has been reset successfully. Please log in with your new password.",
                  <<>>),
              sendEmail("passwordChanged", users[inflight[r].user_id].user_email, NULL, delivered))
    /\ failed' = [failed EXCEPT ![inflight[r].user_id] = 0]
    /\ inflight' = [inflight EXCEPT ![r] = Done("resetPassword", inflight[r].token, users' # users)]
    /\ UNCHANGED <<now, ticks, nextToken, env, bearer, limiter>>

(* resendVerification up to the await of its UPDATE: getUserByEmail, the
   check of is_verified and the new token *)
resendVerificationSelect(r) ==
    /\ inflight[r].pc = "idle"
    /\ \E email \in Emails :
          LET req == Request("resendVerification", [email |-> email])
              found == getUserByEmail(email)
          IN  IF found # {} /\ ~users[FirstRow(found)].is_verified
              THEN /\ nextToken' = nextToken + 1
                   /\ inflight' = [inflight EXCEPT ![r] =
                          [op |-> "resendVerification", pc |-> "update",
                           token |-> nextToken + 1,
                           expires |-> now + VerificationTtlMs, newPassword |-> "",
                           user_id |-> FirstRow(found), applied |-> FALSE]]
                   /\ last' = last
              ELSE /\ Respond(req, resendVerificationResponse)
                   /\ inflight' = [inflight EXCEPT ![r] = Done("resendVerification", NULL, FALSE)]
                   /\ nextToken' = nextToken
    /\ UNCHANGED <<users, now, ticks, env, bearer, failed, limiter>>

(* resendVerification from its UPDATE to its response *)
resendVerificationUpdate(r) ==
    /\ inflight[r].op = "resendVerification"
    /\ inflight[r].pc = "update"
    /\ users' = SetVerificationToken(inflight[r].user_id, inflight[r].token,
                                     inflight[r].expires)
    /\ \E delivered \in Deliveries :
          RespondAfterMail(
              Request("resendVerification", [email |-> users[inflight[r].user_id].user_email]),
              resendVerificationResponse,
              sendEmail("verification", users[inflight[r].user_id].user_email,
                        inflight[r].token, delivered))
    /\ inflight' = [inflight EXCEPT ![r] = Done("resendVerification", inflight[r].token,
                                                users' # users)]
    /\ UNCHANGED <<now, ticks, nextToken, env, bearer, failed, limiter>>

(* forgotPassword up to the await of its UPDATE: getUserByEmail and the new
   token *)
forgotPasswordSelect(r) ==
    /\ inflight[r].pc = "idle"
    /\ \E email \in Emails :
          LET req == Request("forgotPassword", [email |-> email])
              found == getUserByEmail(email)
          IN  IF found # {}
              THEN /\ nextToken' = nextToken + 1
                   /\ inflight' = [inflight EXCEPT ![r] =
                          [op |-> "forgotPassword", pc |-> "update",
                           token |-> nextToken + 1,
                           expires |-> now + ResetTtlMs, newPassword |-> "",
                           user_id |-> FirstRow(found), applied |-> FALSE]]
                   /\ last' = last
              ELSE /\ Respond(req, forgotPasswordResponse)
                   /\ inflight' = [inflight EXCEPT ![r] = Done("forgotPassword", NULL, FALSE)]
                   /\ nextToken' = nextToken
    /\ UNCHANGED <<users, now, ticks, env, bearer, failed, limiter>>

(* forgotPassword from its UPDATE to its response *)
forgotPasswordUpdate(r) ==
    /\ inflight[r].op = "forgotPassword"
    /\ inflight[r].pc = "update"
    /\ users' = SetResetToken(inflight[r].user_id, inflight[r].token, inflight[r].expires)
    /\ \E delivered \in Deliveries :
          RespondAfterMail(
              Request("forgotPassword", [email |-> users[inflight[r].user_id].user_email]),
              forgotPasswordResponse,
              sendEmail("passwordReset", users[inflight[r].user_id].user_email,
                        inflight[r].token, delivered))
    /\ inflight' = [inflight EXCEPT ![r] = Done("forgotPassword", inflight[r].token,
                                                users' # users)]
    /\ UNCHANGED <<now, ticks, nextToken, env, bearer, failed, limiter>>

InitConcurrent ==
    /\ inflight = NoInflight
    /\ limiter = NoLimiter
    /\ now = 0
    /\ ticks = 0
    /\ nextToken = 2
    /\ env \in InitEnv
    /\ bearer = NoBearer
    /\ users = <<[InsertUser(1, "Jane", "jane@x.com", bcryptHash("Secret123!"),
                              1, VerificationTtlMs)
                     EXCEPT !.reset_password_token = 2,
                            !.reset_password_expires = ResetTtlMs]>>
    /\ failed = <<0>>
    /\ last = NoRequest

NextConcurrent ==
    \/ Tick
    \/ \E r \in Requests : verifyEmailSelect(r)
    \/ \E r \in Requests : verifyEmailUpdate(r)
    \/ \E r \in Requests : resetPasswordSelect(r)
    \/ \E r \in Requests : resetPasswordUpdate(r)
    \/ \E r \in Requests : resendVerificationSelect(r)
    \/ \E r \in Requests : resendVerificationUpdate(r)
    \/ \E r \in Requests : forgotPasswordSelect(r)
    \/ \E r \in Requests : forgotPasswordUpdate(r)

SpecConcurrent == InitConcurrent /\ [][NextConcurrent]_vars

----------------------------------------------------------------------------
(* Concurrent logins.  login awaits getUserByEmail, bcrypt.compare and its
   UPDATE: between the SELECT and the UPDATE of one request the statements of
   other requests run.  The lockout check, the comparison and the new counter
   are computed from the row the SELECT returned.  *)

(* the e-mail address the concurrent logins are made with *)
LoginEmails == {"jane@x.com"}

(* login up to its UPDATE: getUserByEmail, the lockout check, bcrypt.compare
   and the verification policy, all on the row as it was read *)
loginSelect(r) ==
    /\ inflight[r].pc # "update"
    /\ \E email \in LoginEmails, password \in Passwords :
          LET req == Request("login", [email |-> email, password |-> password])
              found == getUserByEmail(email)
          IN  IF found = {}
              THEN /\ Respond(req, errorHandler(ErrorResponse("Invalid credentials", 401)))
                   /\ inflight' = [inflight EXCEPT ![r] = Done("login", NULL, FALSE)]
              ELSE LET user == users[FirstRow(found)]
                       suspended == [op |-> "login", pc |-> "update", token |-> NULL,
                                     expires |-> NULL, newPassword |-> password,
                                     user_id |-> user.user_id, applied |-> FALSE,
                                     email |-> email, user |-> user,
                                     isMatch |-> bcryptCompare(password, user.user_password)]
                   IN  IF IsLocked(user)
                       THEN /\ Respond(req, [errorHandler(ErrorResponse(
                                   "Account is temporarily locked. Please try again in ${remainingMinutes} minutes.",
                                   423)) EXCEPT !.data = [remainingMinutes |-> remainingMinutes(user)]])
                            /\ inflight' = [inflight EXCEPT ![r] = Done("login", NULL, FALSE)]
                       ELSE IF ~suspended.isMatch
                       THEN /\ inflight' = [inflight EXCEPT ![r] = suspended]
                            /\ last' = last
                       ELSE IF requireEmailVerification /\ ~user.is_verified
                       THEN /\ Respond(req, errorHandler(ErrorResponse(
                                   "Please verify your email before logging in. Check your inbox for the verification link.",
                                   403)))
                            /\ inflight' = [inflight EXCEPT ![r] = Done("login", NULL, FALSE)]
                       ELSE /\ inflight' = [inflight EXCEPT ![r] = suspended]
                            /\ last' = last
    /\ UNCHANGED <<users, now, ticks, nextToken, env, bearer, failed, limiter>>

(* login from its UPDATE to its response: the failed-attempt UPDATE with the
   counter read earlier plus one, or the UPDATE that resets the counter *)
loginUpdate(r) ==
    /\ inflight[r].op = "login"
    /\ inflight[r].pc = "update"
    /\ LET user == inflight[r].user
           req == Request("login", [email |-> inflight[r].email,
                                    password |-> inflight[r].newPassword])
       IN  IF ~inflight[r].isMatch
           THEN LET newAttempts == user.login_attempts + 1
                    lockoutUntil == now + LockoutMs
                    result == pgQuery(FailedLoginSql(newAttempts),
                                      FailedLoginParams(newAttempts, lockoutUntil, user))
                IN  /\ failed[user.user_id] < MaxLogins
                    /\ failed' = [failed EXCEPT ![user.user_id] = @ + 1]
                    /\ users' = result.rows
                    /\ IF result.ok
                       THEN Respond(req, errorHandler(ErrorResponse("Invalid credentials", 401)))
                       ELSE Respond(req, errorHandler(result.error))
                    /\ bearer' = bearer
           ELSE /\ users' = ResetLoginAttempts(user.user_id)
                /\ failed' = [failed EXCEPT ![user.user_id] = 0]
                /\ bearer' = generateToken(user)
                /\ Respond(req, Success(200, "Login successful",
                       [token |-> generateToken(user),
                        user |-> [id |-> user.user_id, name |-> user.user_name,
                                  email |-> user.user_email,
                                  isVerified |-> user.is_verified]]))
    /\ inflight' = [inflight EXCEPT ![r] = Done("login", NULL, users' # users)]
    /\ UNCHANGED <<now, ticks, nextToken, env, limiter>>

(* the table holds one verified account that has not failed a login yet *)
InitLogins ==
    /\ inflight = NoInflight
    /\ limiter = NoLimiter
    /\ now = 0
    /\ ticks = 0
    /\ users = <<[InsertUser(1, "Jane", "jane@x.com", bcryptHash("Secret123!"), NULL, NULL)
                     EXCEPT !.is_verified = TRUE]>>
    /\ failed = <<0>>
    /\ nextToken = 0
    /\ env \in InitEnv
    /\ bearer = NoBearer
    /\ last = NoRequest

NextLogins ==
    \/ \E r \in Requests : loginSelect(r)
    \/ \E r \in Requests : loginUpdate(r)

SpecLogins == InitLogins /\ [][NextLogins]_vars

----------------------------------------------------------------------------
(* Concurrent registrations.  register awaits its SELECT by e-mail, the
   bcrypt hashing and its INSERT: two requests can both find no row before
   either inserts.  The table starts empty. *)

(* register up to its INSERT: the existence check, the verification token and
   its expiry *)
registerCheck(r) ==
    /\ inflight[r].pc = "idle"
    /\ \E name \in Names, email \in Emails, password \in Passwords :
          LET req == Request("register", [name |-> name, email |-> email,
                                          password |-> password])
          IN  IF UserCheck(email) # {}
              THEN /\ Respond(req, errorHandler(ErrorResponse(
                          "User with this email already exists", 400)))
                   /\ inflight' = [inflight EXCEPT ![r] = Done("register", NULL, FALSE)]
                   /\ nextToken' = nextToken
              ELSE /\ nextToken' = nextToken + 1
                   /\ inflight' = [inflight EXCEPT ![r] =
                          [op |-> "register", pc |-> "update", token |-> nextToken + 1,
                           expires |-> now + VerificationTtlMs, newPassword |-> password,
                           user_id |-> NULL, applied |-> FALSE,
                           name |-> name, email |-> email]]
                   /\ last' = last
    /\ UNCHANGED <<users, now, ticks, env, bearer, failed, limiter>>

(* register from its INSERT to its response *)
registerInsert(r) ==
    /\ inflight[r].op = "register"
    /\ inflight[r].pc = "update"
    /\ LET req == Request("register", [name |-> inflight[r].name,
                                       email |-> inflight[r].email,
                                       password |-> inflight[r].newPassword])
           user == InsertUser(Len(users) + 1, inflight[r].name,
                              toLowerCase(inflight[r].email),
                              bcryptHash(inflight[r].newPassword),
                              inflight[r].token, inflight[r].expires)
       IN  IF ViolatesUniqueEmail(user.user_email)
           THEN /\ Respond(req, errorHandler(PgError(
                       "duplicate key value violates unique constraint", "23505")))
                /\ UNCHANGED <<users, failed>>
           ELSE /\ users' = Append(users, user)
                /\ failed' = Append(failed, 0)
                /\ \E delivered \in Deliveries :
                     RespondAfterMail(req, Success(201,
                       "User registered successfully. Please check your email to verify your account.",
                       [requiresVerification |-> TRUE,
                        user |-> [id |-> user.user_id, name |-> user.user_name,
                                  email |-> user.user_email]]),
                       sendEmail("verification", inflight[r].email, inflight[r].token,
                                 delivered))
    /\ inflight' = [inflight EXCEPT ![r] = Done("register", inflight[r].token, users' # users)]
    /\ UNCHANGED <<now, ticks, nextToken, env, bearer, limiter>>

InitRegister == Init

NextRegister ==
    \/ \E r \in Requests : registerCheck(r)
    \/ \E r \in Requests : registerInsert(r)

SpecRegister == InitRegister /\ [][NextRegister]_vars

----------------------------------------------------------------------------
(* Password resets of one account: forgotPassword and resetPassword, one
   request at a time, on a table that holds one verified account, with the
   clock advancing up to or just past the lifetime of a reset token. *)

(* time passes: up to or just past the expiry of a reset token *)
TickReset == Advance(ResetSteps)

InitReset == InitLogins

NextReset ==
    \/ TickReset
    \/ forgotPassword
    \/ resetPassword

SpecReset == InitReset /\ [][NextReset]_vars

----------------------------------------------------------------------------
(* The authentication rate limiter, app.use('/api/auth', authLimiter,
   authRoutes): express-rate-limit with windowMs 15 minutes and max 5.  The
   library counts the hits of a key in a window that opens with the key's
   first hit, and calls the handler once the count exceeds max.

   keyGenerator returns ipKeyGenerator(req): the library's helper is handed
   the request object, where it takes an address string.  The library is not
   part of the repository, and what the helper makes of a request object is
   not decided by the source: the key is the client's IP if the helper
   recovers it, and the request itself, a key no other request has, if the
   helper returns its argument.  A deployment is one or the other. *)

(* keyGenerator(req): the key's hit record before this request *)
keyGenerator(ip) ==
    IF limiter.keyBy = "ip" THEN limiter.hits[ip]
    ELSE [totalHits |-> 0, resetTime |-> 0]

(* the store's increment of a hit record: a window that has run out starts
   again, then the hit is counted *)
increment(client) ==
    IF client.totalHits = 0 \/ client.resetTime <= now
    THEN [totalHits |-> 1, resetTime |-> now + RateLimitWindowMs]
    ELSE [totalHits |-> client.totalHits + 1, resetTime |-> client.resetTime]

(* handler: res.status(429).json({success: false, message, retryAfter}) *)
rateLimited ==
    [status |-> 429, success |-> FALSE,
     message |-> "Too many authentication attempts, please try again after 15 minutes",
     data |-> [retryAfter |-> (RateLimitWindowMs + 999) \div 1000], stack |-> FALSE]

(* a request to /api/auth from a client IP goes through authLimiter: it gets
   the 429 of the handler, or next() hands it to authRoutes.  hits keeps each
   IP's requests in its window, whatever the key the limiter counted under. *)
authLimiter ==
    \E ip \in Ips :
        LET counted == increment(keyGenerator(ip))
            req == Request("authLimiter", [ip |-> ip])
        IN  /\ limiter.hits[ip].totalHits < MaxHits
            /\ limiter' = [limiter EXCEPT !.hits[ip] = increment(limiter.hits[ip])]
            /\ IF counted.totalHits > RateLimitMax
               THEN Respond(req, rateLimited)
               ELSE Respond(req, Success(200, "authRoutes", <<>>))
            /\ UNCHANGED <<users, now, ticks, nextToken, env, bearer, failed, inflight>>

(* time passes: a part of the window, or the whole window *)
TickWindow == Advance(WindowSteps)

InitLimiter ==
    /\ inflight = NoInflight
    /\ limiter \in [keyBy : {"ip", "request"}, hits : {NoHits}]
    /\ users = <<>>
    /\ now = 0
    /\ ticks = 0
    /\ nextToken = 0
    /\ env \in InitEnv
    /\ bearer = NoBearer
    /\ failed = <<>>
    /\ last = NoRequest

NextLimiter ==
    \/ TickWindow
    \/ authLimiter

SpecLimiter == InitLimiter /\ [][NextLimiter]_vars

(* The error handler on its own.  Any error passed to next(err) or thrown in a
   route reaches errorHandler; the errors below are the ones the application
   and its libraries raise: an ErrorResponse with a status code, an error of
   the pg driver with a PostgreSQL or socket code, an error of jsonwebtoken
   with its name, and a plain Error. *)

ErrorMessages == {"", "connect ECONNREFUSED 127.0.0.1:5432",
                  "bind message supplies 2 parameters, but prepared statement requires 3"}

ErrorStatusCodes == {NULL, 400, 401, 403, 404, 423, 500}

ErrorCodes == {"", "23505", "23503", "ECONNREFUSED", "08P01", "22P02"}

ErrorNames == {"Error", "error", "JsonWebTokenError", "TokenExpiredError"}

Errors == [message : ErrorMessages, statusCode : ErrorStatusCodes,
           code : ErrorCodes, name : ErrorNames]

(* app.use(errorHandler): an error reaches the handler and is answered *)
handleError ==
    \E err \in Errors :
        /\ Respond(Request("errorHandler", err), errorHandler(err))
        /\ UNCHANGED <<users, now, ticks, nextToken, env, bearer, failed, inflight, limiter>>

InitErrors == Init

NextErrors == handleError

SpecErrors == InitErrors /\ [][NextErrors]_vars

----------------------------------------------------------------------------
(* Properties *)

(* the step is the handling of one request of the given operation *)
IsStep(op) == last'.req.op = op /\ ticks' = ticks

(* the accounts a request's e-mail addresses, compared case-insensitively *)
Addressed(email) ==
    {id \in UserIds : toLowerCase(users[id].user_email) = toLowerCase(email)}

(* C1: the 5th consecutive wrong-password Login on an account (counted from
   loginAttempts = 0, with no successful login, reset or change in between)
   stores loginAttempts = 5 and lockoutUntil = now + 30 minutes; each of the
   first 4 leaves lockoutUntil absent. *)
C1_FifthFailureLocks ==
    [][\A id \in UserIds :
          (IsStep("login") /\ failed'[id] = failed[id] + 1) =>
              /\ failed'[id] = 5 =>
                    /\ users'[id].login_attempts = 5
                    /\ users'[id].lockout_until = now + 30 * 60 * 1000
              /\ failed'[id] <= 4 => users'[id].lockout_until = NULL]_vars

(* C2: a Login for an account whose stored lockoutUntil is in the future is
   answered 423 AccountLocked whatever the password, carries no bearer token,
   issues none, and leaves every row of the table as it was. *)
C2_LockedLoginRejected ==
    [][\A id \in UserIds :
          (/\ IsStep("login")
           /\ id \in Addressed(last'.req.body.email)
           /\ users[id].lockout_until # NULL
           /\ users[id].lockout_until > now) =>
              /\ last'.res.status = 423
              /\ last'.res.message =
                   "Account is temporarily locked. Please try again in ${remainingMinutes} minutes."
              /\ "token" \notin DOMAIN last'.res.data
              /\ bearer' = bearer
              /\ users' = users]_vars

(* C2 witness: a Login with the correct password was answered 423 and the
   account is still locked *)
C2_Witness ==
    /\ last.req.op = "login"
    /\ last.res.status = 423
    /\ \E id \in UserIds :
          /\ users[id].lockout_until > now
          /\ users[id].user_password = <<"$2b$10$", last.req.body.password>>

(* C3: a Login with a wrong password for an existing account that is not
   locked is answered 401 "Invalid credentials" and stores loginAttempts + 1,
   the attempt that reaches the threshold included. *)
C3_WrongPasswordCounted ==
    [][\A id \in UserIds :
          (/\ IsStep("login")
           /\ id \in Addressed(last'.req.body.email)
           /\ ~(users[id].lockout_until # NULL /\ users[id].lockout_until > now)
           /\ users[id].user_password # <<"$2b$10$", last'.req.body.password>>) =>
              /\ last'.res.status = 401
              /\ last'.res.message = "Invalid credentials"
              /\ users'[id].login_attempts = users[id].login_attempts + 1]_vars

(* C4: a Login with the correct password for an existing account with no
   active lockout, the verification policy satisfied, is answered 200 with a
   bearer token for that account, and the row afterwards has loginAttempts = 0
   and no lockoutUntil, whatever both were before; no other column changes. *)
C4_SuccessResetsAttempts ==
    [][\A id \in UserIds :
          (/\ IsStep("login")
           /\ id \in Addressed(last'.req.body.email)
           /\ ~(users[id].lockout_until # NULL /\ users[id].lockout_until > now)
           /\ users[id].user_password = <<"$2b$10$", last'.req.body.password>>
           /\ (env.REQUIRE_EMAIL_VERIFICATION => users[id].is_verified)) =>
              /\ last'.res.status = 200
              /\ last'.res.data.token.userId = id
              /\ last'.res.data.token.email = users[id].user_email
              /\ last'.res.data.token.sig = "JWT_SECRET"
              /\ bearer' = last'.res.data.token
              /\ users' = [users EXCEPT ![id] =
                              [users[id] EXCEPT !.login_attempts = 0,
                                                !.lockout_until = NULL]]]_vars

(* C4 witness: a Login succeeded after the stored lockout had run out, and the
   row now has no attempts and no lockout *)
C4_Witness ==
    /\ last.req.op = "login"
    /\ last.res.status = 200
    /\ now > 30 * 60 * 1000
    /\ \E id \in UserIds :
          /\ last.res.data.token.userId = id
          /\ users[id].login_attempts = 0
          /\ users[id].lockout_until = NULL
          /\ failed[id] = 0

(* C5: with REQUIRE_EMAIL_VERIFICATION on, Register answers without a token,
   a Login with the correct password on an unverified account is answered 403
   and issues nothing, the same Login on a verified account is answered 200
   with a token, and every bearer token in existence belongs to a verified
   account. *)
C5_NoTokenBeforeVerification ==
    [][env.REQUIRE_EMAIL_VERIFICATION =>
          /\ IsStep("register") =>
                /\ "token" \notin DOMAIN last'.res.data
                /\ bearer' = bearer
          /\ \A id \in UserIds :
                (/\ IsStep("login")
                 /\ id \in Addressed(last'.req.body.email)
                 /\ ~(users[id].lockout_until # NULL /\ users[id].lockout_until > now)
                 /\ users[id].user_password = <<"$2b$10$", last'.req.body.password>>) =>
                    IF users[id].is_verified
                    THEN /\ last'.res.status = 200
                         /\ last'.res.data.token.userId = id
                    ELSE /\ last'.res.status = 403
                         /\ "token" \notin DOMAIN last'.res.data
                         /\ bearer' = bearer
          /\ bearer'.userId # NULL => users'[bearer'.userId].is_verified]_vars

(* C5 witness: under the policy, the Login of a verified account succeeded
   with a token *)
C5_Witness ==
    /\ env.REQUIRE_EMAIL_VERIFICATION
    /\ last.req.op = "login"
    /\ last.res.status = 200
    /\ users[last.res.data.token.userId].is_verified
    /\ bearer = last.res.data.token

(* C6: a Register with an e-mail no account holds adds exactly one row, with
   isVerified = false, loginAttempts = 0, no lockout, no reset token and a
   verification token expiring 24 hours later; the 201 response carries
   requiresVerification and the user's id, name and e-mail and nothing else. *)
C6_RegisterCreatesUnverified ==
    [][(/\ IsStep("register")
        /\ Addressed(last'.req.body.email) = {}) =>
           /\ Len(users') = Len(users) + 1
           /\ SubSeq(users', 1, Len(users)) = users
           /\ LET row == users'[Len(users')]
              IN  /\ row.user_email = toLowerCase(last'.req.body.email)
                  /\ row.user_name = last'.req.body.name
                  /\ row.is_verified = FALSE
                  /\ row.login_attempts = 0
                  /\ row.lockout_until = NULL
                  /\ row.reset_password_token = NULL
                  /\ row.reset_password_expires = NULL
                  /\ row.verification_token # NULL
                  /\ \A id \in UserIds : users[id].verification_token # row.verification_token
                  /\ row.verification_token_expires = now + 24 * 60 * 60 * 1000
                  /\ last'.res.status = 201
                  /\ DOMAIN last'.res.data = {"requiresVerification", "user"}
                  /\ last'.res.data.requiresVerification
                  /\ last'.res.data.user =
                        [id |-> row.user_id, name |-> row.user_name, email |-> row.user_email]
           /\ bearer' = bearer]_vars

(* C6 witness: a Register was answered 201 and its account is in the table *)
C6_Witness ==
    /\ last.req.op = "register"
    /\ last.res.status = 201
    /\ \E id \in UserIds :
          /\ last.res.data.user.id = id
          /\ ~users[id].is_verified
          /\ users[id].verification_token # NULL

(* C7: a Register whose e-mail equals an existing account's e-mail up to case
   is answered 400 "User with this email already exists" and leaves the table
   as it was. *)
C7_DuplicateEmailRejected ==
    [][(/\ IsStep("register")
        /\ Addressed(last'.req.body.email) # {}) =>
           /\ last'.res.status = 400
           /\ last'.res.message = "User with this email already exists"
           /\ users' = users]_vars

(* C7 witness: a Register was rejected as a duplicate although its e-mail is
   spelled differently from the stored one *)
C7_Witness ==
    /\ last.req.op = "register"
    /\ last.res.status = 400
    /\ \E id \in UserIds :
          /\ users[id].user_email # last.req.body.email
          /\ id \in Addressed(last.req.body.email)

(* C8: a VerifyEmail that repeats the token of the VerifyEmail answered 200
   just before it is answered 200 too and leaves the table as it was. *)
C8_VerifyEmailIdempotent ==
    [][(/\ IsStep("verifyEmail")
        /\ last.req.op = "verifyEmail"
        /\ last.res.status = 200
        /\ last'.req = last.req) =>
           /\ last'.res.status = 200
           /\ users' = users]_vars

(* C9: a VerifyEmail whose token belongs to an unverified account and whose
   expiry has passed is answered 400 "Verification token has expired ..." and
   leaves the table as it was: still unverified, same token, same expiry. *)
C9_ExpiredVerificationKept ==
    [][\A id \in UserIds :
          (/\ IsStep("verifyEmail")
           /\ users[id].verification_token = last'.req.body.token
           /\ ~users[id].is_verified
           /\ users[id].verification_token_expires # NULL
           /\ users[id].verification_token_expires < now) =>
              /\ last'.res.status = 400
              /\ last'.res.message =
                   "Verification token has expired. Please request a new verification email."
              /\ users' = users
              /\ ~users'[id].is_verified
              /\ users'[id].verification_token = last'.req.body.token]_vars

(* C9 witness: a VerifyEmail was refused as expired and the account still
   holds that token, unverified *)
C9_Witness ==
    /\ last.req.op = "verifyEmail"
    /\ last.res.status = 400
    /\ \E id \in UserIds :
          /\ users[id].verification_token = last.req.body.token
          /\ users[id].verification_token_expires < now
          /\ ~users[id].is_verified

(* C10: a VerifyEmail whose token belongs to an unverified account and has not
   expired is answered 200 and sets isVerified, clearing the token and its
   expiry in the same update; a VerifyEmail whose token no account holds is
   answered 400 "Invalid verification token" and leaves the table as it was. *)
C10_VerifyEmailEffect ==
    [][/\ \A id \in UserIds :
             (/\ IsStep("verifyEmail")
              /\ users[id].verification_token = last'.req.body.token
              /\ ~users[id].is_verified
              /\ users[id].verification_token_expires >= now) =>
                 /\ last'.res.status = 200
                 /\ users' = [users EXCEPT ![id] =
                                 [users[id] EXCEPT !.is_verified = TRUE,
                                                   !.verification_token = NULL,
                                                   !.verification_token_expires = NULL,
                                                   !.updated_at = now]]
       /\ (/\ IsStep("verifyEmail")
           /\ \A id \in UserIds : users[id].verification_token # last'.req.body.token) =>
              /\ last'.res.status = 400
              /\ last'.res.message = "Invalid verification token"
              /\ users' = users]_vars

(* C10 witness: a VerifyEmail was answered 200 and the account is verified
   with no token and no expiry *)
C10_Witness ==
    /\ last.req.op = "verifyEmail"
    /\ last.res.status = 200
    /\ \E id \in UserIds :
          /\ users[id].is_verified
          /\ users[id].verification_token = NULL
          /\ users[id].verification_token_expires = NULL
          /\ users[id].updated_at = now

(* C11: isVerified is monotone: a new account starts with isVerified = false,
   an account that is verified stays verified over every step of every
   handler, and isVerified turns true only in a VerifyEmail step answered
   200. *)
C11_VerifiedMonotone ==
    [][/\ Len(users') >= Len(users)
       /\ \A id \in 1..Len(users') :
             IF id \in UserIds
             THEN /\ users[id].is_verified => users'[id].is_verified
                  /\ (~users[id].is_verified /\ users'[id].is_verified) =>
                        /\ IsStep("verifyEmail")
                        /\ last'.res.status = 200
             ELSE /\ IsStep("register")
                  /\ ~users'[id].is_verified]_vars

(* C11 witness: a verified account went through a successful ResetPassword and
   is still verified *)
C11_Witness ==
    /\ last.req.op = "resetPassword"
    /\ last.res.status = 200
    /\ \E id \in UserIds : users[id].is_verified

(* C12 as stated: a ResetPassword answered 200 stores the new password's hash,
   which differs from the old one, sets loginAttempts = 0 and clears
   lockoutUntil, resetToken and resetTokenExpiresAt; the next Login with the
   new password is answered 200 and the next Login with another password is
   not. *)
C12_ResetThenLoginSucceeds ==
    [][/\ \A id \in UserIds :
             (/\ IsStep("resetPassword")
              /\ last'.res.status = 200
              /\ users[id].reset_password_token = last'.req.body.token) =>
                 /\ users'[id].user_password = <<"$2b$10$", last'.req.body.newPassword>>
                 /\ users'[id].user_password # users[id].user_password
                 /\ users'[id].login_attempts = 0
                 /\ users'[id].lockout_until = NULL
                 /\ users'[id].reset_password_token = NULL
                 /\ users'[id].reset_password_expires = NULL
       /\ (/\ last.req.op = "resetPassword"
           /\ last.res.status = 200
           /\ IsStep("login")
           /\ Addressed(last'.req.body.email) # {}) =>
              IF last'.req.body.password = last.req.body.newPassword
              THEN last'.res.status = 200
              ELSE last'.res.status # 200]_vars

(* C12 amended: a ResetPassword answered 200 stores the new password's hash,
   sets loginAttempts = 0 and clears lockoutUntil, resetToken and
   resetTokenExpiresAt; the next Login with a password other than the new one
   is answered 401, and the next Login with the new password passes the
   lockout and password checks: it is answered 200 with a token, or 403 when
   the verification policy is on and the account is unverified. *)
C12_ResetThenLogin ==
    [][/\ \A id \in UserIds :
             (/\ IsStep("resetPassword")
              /\ last'.res.status = 200
              /\ users[id].reset_password_token = last'.req.body.token) =>
                 /\ users'[id].user_password = <<"$2b$10$", last'.req.body.newPassword>>
                 /\ users'[id].login_attempts = 0
                 /\ users'[id].lockout_until = NULL
                 /\ users'[id].reset_password_token = NULL
                 /\ users'[id].reset_password_expires = NULL
       /\ \A id \in UserIds :
             (/\ last.req.op = "resetPassword"
              /\ last.res.status = 200
              /\ IsStep("login")
              /\ id \in Addressed(last'.req.body.email)) =>
                 IF last'.req.body.password = last.req.body.newPassword
                 THEN IF env.REQUIRE_EMAIL_VERIFICATION /\ ~users[id].is_verified
                      THEN last'.res.status = 403
                      ELSE /\ last'.res.status = 200
                           /\ last'.res.data.token.userId = id
                 ELSE /\ last'.res.status = 401
                      /\ bearer' = bearer]_vars

(* C12 witness: an account has reset its password to a new one and logged in
   with it before the clock moved, so before any stored lockout could run out *)
C12_Witness ==
    /\ last.req.op = "login"
    /\ last.res.status = 200
    /\ now = 0
    /\ \E id \in UserIds :
          /\ users[id].user_password # <<"$2b$10$", "Secret123!">>
          /\ users[id].user_password = <<"$2b$10$", last.req.body.password>>
          /\ users[id].reset_password_token = NULL
          /\ users[id].lockout_until = NULL

(* C13: a ResetPassword whose token no account stores is answered 400
   "Invalid or expired reset token", one whose token is stored with an expiry
   in the past is answered 400 "Reset token has expired. ..."; in both cases
   the users table is left as it was. *)
C13_BadResetTokenRejected ==
    [][IsStep("resetPassword") =>
          /\ (\A id \in UserIds : users[id].reset_password_token # last'.req.body.token) =>
                /\ last'.res.status = 400
                /\ last'.res.message = "Invalid or expired reset token"
                /\ users' = users
          /\ \A id \in UserIds :
                (/\ users[id].reset_password_token = last'.req.body.token
                 /\ users[id].reset_password_expires < now) =>
                    /\ last'.res.status = 400
                    /\ last'.res.message =
                         "Reset token has expired. Please request a new password reset."
                    /\ users' = users]_vars

(* C13 witness: a ResetPassword with a stored but expired token was refused
   and the token is still stored *)
C13_Witness ==
    /\ last.req.op = "resetPassword"
    /\ last.res.status = 400
    /\ \E id \in UserIds :
          /\ users[id].reset_password_token = last.req.body.token
          /\ users[id].reset_password_expires < now

(* C14: verification and reset tokens are single-use: of all the requests
   that carry one token to VerifyEmail, or to ResetPassword, at most one
   changes the account with its update, also when they are handled
   concurrently. *)
C14_TokensSingleUse ==
    \A token \in Tokens : \A op \in {"verifyEmail", "resetPassword"} :
        Cardinality({r \in Requests : /\ inflight[r].applied
                                      /\ inflight[r].op = op
                                      /\ inflight[r].token = token}) <= 1

(* C15: ForgotPassword is always answered with one and the same response,
   and so is ResendVerification: status, success flag, message and body do
   not depend on whether the e-mail belongs to no account, to an unverified
   account or to a verified one. *)
C15_UniformResponses ==
    [][/\ IsStep("forgotPassword") =>
             last'.res = [status |-> 200, success |-> TRUE,
                          message |-> "If an account with that email exists, a password reset link has been sent.",
                          data |-> <<>>, stack |-> FALSE]
       /\ IsStep("resendVerification") =>
             last'.res = [status |-> 200, success |-> TRUE,
                          message |-> "If an account with that email exists and needs verification, a new email has been sent.",
                          data |-> <<>>, stack |-> FALSE]]_vars

(* C15 witness: ForgotPassword was answered for an e-mail that belongs to a
   verified account, for which it stored a reset token *)
C15_Witness ==
    /\ last.req.op = "forgotPassword"
    /\ last.res.status = 200
    /\ \E id \in UserIds :
          /\ users[id].is_verified
          /\ users[id].reset_password_token = last.mail.token

(* C16: ResendVerification for an existing unverified account stores a token
   no row held before, with an expiry 24 hours later, mails that token and
   changes nothing else; a VerifyEmail that follows with any other token, the
   previous one included, is answered 400 "Invalid verification token"; for a
   verified account or an unknown e-mail the table is unchanged and no mail is
   dispatched. *)
C16_ResendRotatesToken ==
    [][/\ IsStep("resendVerification") =>
             /\ \A id \in Addressed(last'.req.body.email) :
                   IF users[id].is_verified
                   THEN /\ users' = users
                        /\ last'.mail.kind = "none"
                   ELSE /\ users'[id].verification_token # NULL
                        /\ \A other \in UserIds :
                              users[other].verification_token # users'[id].verification_token
                        /\ users'[id].verification_token_expires = now + 24 * 60 * 60 * 1000
                        /\ last'.mail.kind = "verification"
                        /\ last'.mail.token = users'[id].verification_token
                        /\ users' = [users EXCEPT ![id] =
                              [users[id] EXCEPT
                                  !.verification_token = users'[id].verification_token,
                                  !.verification_token_expires = users'[id].verification_token_expires,
                                  !.updated_at = users'[id].updated_at]]
             /\ Addressed(last'.req.body.email) = {} =>
                   /\ users' = users
                   /\ last'.mail.kind = "none"
       /\ (/\ last.req.op = "resendVerification"
           /\ last.mail.kind = "verification"
           /\ IsStep("verifyEmail")
           /\ last'.req.body.token # last.mail.token) =>
              /\ last'.res.status = 400
              /\ last'.res.message = "Invalid verification token"
              /\ users' = users]_vars

(* C16 witness: after a resend, a VerifyEmail with the token issued before it
   was refused as invalid, and the account is still unverified *)
C16_Witness ==
    /\ last.req.op = "verifyEmail"
    /\ last.res.status = 400
    /\ last.res.message = "Invalid verification token"
    /\ \E id \in UserIds :
          /\ ~users[id].is_verified
          /\ users[id].verification_token # NULL
          /\ users[id].verification_token > last.req.body.token

(* C17: ForgotPassword for an existing account stores a reset token no row
   held before with an expiry one hour later and leaves the password hash,
   isVerified, loginAttempts, lockoutUntil and the verification token as they
   were; for an unknown e-mail the table is unchanged. *)
C17_ForgotPasswordFrame ==
    [][IsStep("forgotPassword") =>
          /\ \A id \in Addressed(last'.req.body.email) :
                /\ users'[id].reset_password_token # NULL
                /\ \A other \in UserIds :
                      users[other].reset_password_token # users'[id].reset_password_token
                /\ users'[id].reset_password_expires = now + 60 * 60 * 1000
                /\ last'.mail.token = users'[id].reset_password_token
                /\ users' = [users EXCEPT ![id] =
                      [users[id] EXCEPT
                          !.reset_password_token = users'[id].reset_password_token,
                          !.reset_password_expires = users'[id].reset_password_expires,
                          !.updated_at = users'[id].updated_at]]
          /\ Addressed(last'.req.body.email) = {} => users' = users]_vars

(* C17 witness: ForgotPassword stored a reset token on an account that has
   failed logins on its counter *)
C17_Witness ==
    /\ last.req.op = "forgotPassword"
    /\ \E id \in UserIds :
          /\ users[id].reset_password_token = last.mail.token
          /\ users[id].reset_password_expires = now + 60 * 60 * 1000
          /\ users[id].login_attempts > 0

(* C18: a ChangePassword that passed authentication and validation and whose
   currentPassword does not match the stored hash is answered 401 and leaves
   the table as it was; one whose currentPassword matches is answered 200 and
   stores the hash of the new password, which differs from the old hash, with
   loginAttempts = 0 and no lockoutUntil; the next Login with the new password
   passes the password check and one with another password is answered
   401. *)
C18_ChangePassword ==
    [][/\ \A id \in UserIds :
             (/\ IsStep("changePassword")
              /\ "currentPassword" \in DOMAIN last'.req.body
              /\ last'.req.body.newPassword # last'.req.body.currentPassword
              /\ id = bearer.userId) =>
                 IF users[id].user_password # <<"$2b$10$", last'.req.body.currentPassword>>
                 THEN /\ last'.res.status = 401
                      /\ last'.res.message = "Current password is incorrect"
                      /\ users' = users
                 ELSE /\ last'.res.status = 200
                      /\ users'[id].user_password = <<"$2b$10$", last'.req.body.newPassword>>
                      /\ users'[id].user_password # users[id].user_password
                      /\ users'[id].login_attempts = 0
                      /\ users'[id].lockout_until = NULL
       /\ \A id \in UserIds :
             (/\ last.req.op = "changePassword"
              /\ last.res.status = 200
              /\ IsStep("login")
              /\ id \in Addressed(last'.req.body.email)) =>
                 IF last'.req.body.password = last.req.body.newPassword
                 THEN IF env.REQUIRE_EMAIL_VERIFICATION /\ ~users[id].is_verified
                      THEN last'.res.status = 403
                      ELSE last'.res.status = 200
                 ELSE last'.res.status = 401]_vars

(* C18 witness: an account has changed its password to a new one and logged
   in with it before the clock moved, so before any stored lockout could run
   out *)
C18_Witness ==
    /\ last.req.op = "login"
    /\ last.res.status = 200
    /\ now = 0
    /\ \E id \in UserIds :
          /\ users[id].user_password = <<"$2b$10$", "Other456!">>
          /\ users[id].reset_password_token # NULL
          /\ users[id].login_attempts = 0
          /\ users[id].lockout_until = NULL

(* C19: a ChangePassword answered 200 leaves the account without a reset
   token and without a reset-token expiry. *)
C19_ChangeClearsResetToken ==
    [][\A id \in UserIds :
          (/\ IsStep("changePassword")
           /\ last'.res.status = 200
           /\ id = bearer.userId) =>
              /\ users'[id].reset_password_token = NULL
              /\ users'[id].reset_password_expires = NULL]_vars

(* C20: when the dispatch of a handler's e-mail fails, the handler still
   answers with its success response and its update of the table stays:
   Register has inserted the account, ResendVerification and ForgotPassword
   have stored the token they mailed, ResetPassword and ChangePassword have
   stored the new password's hash. *)
C20_DispatchFailureTolerated ==
    [][(/\ ticks' = ticks
        /\ last'.mail.kind # "none"
        /\ ~last'.mail.delivered) =>
           /\ last'.res.success
           /\ last'.res.status = (IF last'.req.op = "register" THEN 201 ELSE 200)
           /\ last'.req.op = "register" =>
                 /\ Len(users') = Len(users) + 1
                 /\ users'[Len(users')].verification_token = last'.mail.token
           /\ last'.req.op = "resendVerification" =>
                 \E id \in UserIds : /\ users'[id].verification_token = last'.mail.token
                                     /\ users[id].verification_token # last'.mail.token
           /\ last'.req.op = "forgotPassword" =>
                 \E id \in UserIds : /\ users'[id].reset_password_token = last'.mail.token
                                     /\ users[id].reset_password_token # last'.mail.token
           /\ last'.req.op \in {"resetPassword", "changePassword"} =>
                 \E id \in UserIds :
                    /\ users'[id].user_email = last'.mail.to
                    /\ users'[id].user_password = <<"$2b$10$", last'.req.body.newPassword>>]_vars

(* C20 witness: in production sendEmail threw during a Register, which was
   answered 201 with the account inserted *)
C20_Witness ==
    /\ last.req.op = "register"
    /\ last.mail.thrown
    /\ last.res.status = 201
    /\ \E id \in UserIds : users[id].verification_token = last.mail.token

(* C27: a request from a client IP that has already made 5 requests in its
   running 15-minute window is answered 429 with retryAfter 900 and is not
   handed to the routes; a request from an IP with fewer than 5 requests in
   its window, or whose window has run out, is handed to the routes, whatever
   other IPs have done. *)
C27_RateLimitPerIp ==
    [][\A ip \in Ips :
          (IsStep("authLimiter") /\ last'.req.body.ip = ip) =>
              IF /\ limiter.hits[ip].totalHits >= 5
                 /\ limiter.hits[ip].resetTime > now
              THEN /\ last'.res.status = 429
                   /\ last'.res.data.retryAfter = 900
              ELSE /\ last'.res.status = 200
                   /\ last'.res.message = "authRoutes"]_vars

(* the step is the handling of a request to a route behind protect *)
IsProtectedStep == \E op \in {"getMe", "logout", "changePassword"} : IsStep(op)

(* the response is one of the three refusals of protect *)
RefusedByProtect(res) ==
    /\ res.status = 401
    /\ res.message \in {"Not authorized to access this route", "Invalid token",
                        "Token has expired"}

(* C21: a request to Me, Logout or ChangePassword without a token is answered
   401 "Not authorized to access this route", one with a token that is
   malformed or not signed with the server secret 401 "Invalid token", one
   with an expired token 401 "Token has expired", and none of them changes
   the table; a request with an unexpired token signed with the server secret
   reaches its handler, which acts for the account id in the token; the token
   carries the account id and e-mail, its expiry and its signature, and
   nothing else. *)
C21_ProtectedRoutes ==
    [][/\ IsProtectedStep =>
             LET auth == last'.req.body.authorization
             IN  /\ auth = "none" =>
                       /\ last'.res.status = 401
                       /\ last'.res.message = "Not authorized to access this route"
                 /\ auth = "forged" =>
                       /\ last'.res.status = 401
                       /\ last'.res.message = "Invalid token"
                 /\ (auth = "bearer" /\ now >= bearer.exp) =>
                       /\ last'.res.status = 401
                       /\ last'.res.message = "Token has expired"
                 /\ RefusedByProtect(last'.res) => users' = users /\ bearer' = bearer
                 /\ (auth = "bearer" /\ now < bearer.exp) =>
                       /\ ~RefusedByProtect(last'.res)
                       /\ bearer.sig = "JWT_SECRET"
                       /\ IsStep("getMe") =>
                             /\ last'.res.status = 200
                             /\ last'.res.data.id = bearer.userId
                             /\ last'.res.data.email = bearer.email
                       /\ IsStep("logout") => last'.res.status = 200
                       /\ \A id \in UserIds : users'[id] # users[id] => id = bearer.userId
       /\ DOMAIN bearer' = {"userId", "email", "exp", "sig"}]_vars

(* C21 witness: a request to Me with a token that had expired was refused *)
C21_Witness ==
    /\ last.req.op = "getMe"
    /\ last.req.body.authorization = "bearer"
    /\ bearer.userId # NULL
    /\ now >= bearer.exp
    /\ last.res.status = 401
    /\ last.res.message = "Token has expired"

(* C22: Logout changes neither the table nor anything else the server keeps,
   and the token presented to a Logout answered 200 is accepted by the routes
   behind protect afterwards, as long as it has not expired. *)
C22_LogoutNoOp ==
    [][/\ IsStep("logout") =>
             /\ users' = users
             /\ bearer' = bearer
             /\ nextToken' = nextToken
             /\ failed' = failed
       /\ (/\ last.req.op = "logout"
           /\ last.res.status = 200
           /\ IsProtectedStep
           /\ last'.req.body.authorization = "bearer"
           /\ now < bearer.exp) =>
              ~RefusedByProtect(last'.res)]_vars

(* C22 witness: a Logout was answered 200 and the token it presented has not
   expired and still names its account *)
C22_Witness ==
    /\ last.req.op = "logout"
    /\ last.res.status = 200
    /\ last.req.body.authorization = "bearer"
    /\ bearer.userId \in UserIds
    /\ now < bearer.exp

(* C23: after a ResetPassword or a ChangePassword answered 200, a request to
   a route behind protect that presents the bearer token issued before the
   password change is refused with 401. *)
C23_PasswordChangeInvalidatesTokens ==
    [][(/\ last.req.op \in {"resetPassword", "changePassword"}
        /\ last.res.status = 200
        /\ IsProtectedStep
        /\ last'.req.body.authorization = "bearer") =>
           last'.res.status = 401]_vars

(* C24: every step that changes a row of the users table sets the row's
   updated_at to the time of the step. *)
C24_UpdatedAtBumped ==
    [][\A id \in UserIds :
          users'[id] # users[id] => users'[id].updated_at = now]_vars

(* C25: in every reachable state, whatever the interleaving of the requests in
   flight, an account has a verification token exactly when it has a
   verification expiry, and a reset token exactly when it has a reset expiry. *)
C25_TokenPairedWithExpiry ==
    \A id \in UserIds :
        /\ (users[id].verification_token = NULL) = (users[id].verification_token_expires = NULL)
        /\ (users[id].reset_password_token = NULL) = (users[id].reset_password_expires = NULL)

(* C25 witness: two requests whose handlers overlapped have both applied
   their UPDATE to the account, one writing a token pair and one clearing
   one. *)
C25_Witness ==
    /\ \A r \in Requests : inflight[r].pc = "done" /\ inflight[r].applied
    /\ \E r \in Requests : inflight[r].op \in {"resendVerification", "forgotPassword"}
    /\ \E r \in Requests : inflight[r].op \in {"verifyEmail", "resetPassword"}

(* C26: in every reachable state a verified account has no verification token
   and no verification expiry, also when verifyEmail and resendVerification
   for the account run concurrently. *)
C26_VerifiedHasNoToken ==
    \A id \in UserIds :
        users[id].is_verified =>
            /\ users[id].verification_token = NULL
            /\ users[id].verification_token_expires = NULL

(* errors the handler has a branch of its own for *)
Recognised(err) ==
    \/ err.code \in {"23505", "23503", "ECONNREFUSED"}
    \/ err.name \in {"JsonWebTokenError", "TokenExpiredError"}

(* C28 as stated: in production every error without a status code of its own
   is answered 500 with the message 'Internal Server Error'; no production
   response carries a stack, a response carries one only in development. *)
C28_ProductionErrorsGeneric ==
    /\ last.res.stack => env.NODE_ENV = "development"
    /\ (last.req.op = "errorHandler" /\ env.NODE_ENV = "production"
            /\ last.req.body.statusCode = NULL)
        => /\ last.res.status = 500
           /\ last.res.message = "Internal Server Error"

(* C28 amended: in production an error without a status code of its own that
   the handler has no branch for is answered 500 'Internal Server Error'; a
   PostgreSQL 23505 or 23503 is answered 400, ECONNREFUSED 503 and a
   jsonwebtoken error 401, each with the handler's fixed message; no
   production response carries a stack, a response carries one only in
   development. *)
C28_ProductionErrors ==
    /\ last.res.stack => env.NODE_ENV = "development"
    /\ (last.req.op = "errorHandler" /\ env.NODE_ENV = "production"
            /\ last.req.body.statusCode = NULL)
        => IF Recognised(last.req.body)
           THEN /\ last.res.status \in {400, 401, 503}
                /\ last.res.message \in
                       {"A record with this value already exists",
                        "Referenced record does not exist",
                        "Database connection failed",
                        "Invalid token", "Token has expired"}
           ELSE /\ last.res.status = 500
                /\ last.res.message = "Internal Server Error"

(* C28 witness: in production a store failure with a message of its own and
   no status code has been answered 500 'Internal Server Error' without a
   stack. *)
C28_Witness ==
    /\ env.NODE_ENV = "production"
    /\ last.req.op = "errorHandler"
    /\ last.req.body.statusCode = NULL
    /\ last.req.body.code = "08P01"
    /\ last.req.body.name = "error"
    /\ last.req.body.message = "bind message supplies 2 parameters, but prepared statement requires 3"
    /\ last.res.status = 500
    /\ last.res.message = "Internal Server Error"
    /\ ~last.res.stack

(* C29: Login checks in the order lookup, lockout, password, verification
   policy: an unknown e-mail and a wrong password on an account that is not
   locked are both answered 401 "Invalid credentials"; 403 is answered only
   when the account is not locked and the password matched, and then
   login_attempts and lockout_until (the whole table) stay as they were. *)
C29_LoginCheckOrder ==
    [][IsStep("login") =>
          /\ Addressed(last'.req.body.email) = {} =>
                /\ last'.res.status = 401
                /\ last'.res.message = "Invalid credentials"
          /\ \A id \in Addressed(last'.req.body.email) :
                (/\ ~(users[id].lockout_until # NULL /\ users[id].lockout_until > now)
                 /\ users[id].user_password # <<"$2b$10$", last'.req.body.password>>) =>
                    /\ last'.res.status = 401
                    /\ last'.res.message = "Invalid credentials"
          /\ last'.res.status = 403 =>
                /\ \E id \in Addressed(last'.req.body.email) :
                      /\ ~(users[id].lockout_until # NULL /\ users[id].lockout_until > now)
                      /\ users[id].user_password = <<"$2b$10$", last'.req.body.password>>
                /\ users' = users]_vars

(* C30: for an account whose stored lockout_until has passed, a Login with the
   correct password (the verification policy permitting) is answered 200 and
   clears lockout_until; a Login with a wrong password when the stored
   login_attempts is one short of the threshold or beyond stores a new
   lockout_until 30 minutes ahead. *)
C30_LoginAfterLockoutExpiry ==
    [][\A id \in UserIds :
          (/\ IsStep("login")
           /\ id \in Addressed(last'.req.body.email)
           /\ users[id].lockout_until # NULL
           /\ users[id].lockout_until < now) =>
              IF users[id].user_password = <<"$2b$10$", last'.req.body.password>>
              THEN (env.REQUIRE_EMAIL_VERIFICATION => users[id].is_verified) =>
                      /\ last'.res.status = 200
                      /\ users'[id].login_attempts = 0
                      /\ users'[id].lockout_until = NULL
              ELSE users[id].login_attempts + 1 >= 5 =>
                      users'[id].lockout_until = now + 30 * 60 * 1000]_vars

(* C31: the remainingMinutes of a 423 answer is the time left to
   lockout_until in milliseconds divided by 60000 and rounded up: the least
   integer m with left <= m * 60000; it lies between 1 and 30. *)
C31_RemainingMinutes ==
    [][\A id \in UserIds :
          (/\ IsStep("login")
           /\ id \in Addressed(last'.req.body.email)
           /\ users[id].lockout_until # NULL
           /\ users[id].lockout_until > now) =>
              LET left == users[id].lockout_until - now
                  m == last'.res.data.remainingMinutes
              IN  /\ last'.res.status = 423
                  /\ m \in 1..30
                  /\ (m - 1) * 60000 < left
                  /\ left <= m * 60000]_vars

(* C31 witness: a locked login one millisecond before the end of the lockout
   was answered 423 with remainingMinutes 1 *)
C31_Witness ==
    /\ last.req.op = "login"
    /\ last.res.status = 423
    /\ last.res.data.remainingMinutes = 1
    /\ \E id \in UserIds : users[id].lockout_until - now = 1

(* C32: a VerifyEmail with the expired token of an unverified account leaves
   the account unverified; a ResendVerification for such an account stores a
   new token expiring 24 hours later and mails it; and a VerifyEmail with the
   token a ResendVerification has just mailed, not later than that token's
   expiry, is answered 200 and makes the account verified. *)
C32_ResendRecoversExpired ==
    [][\A id \in UserIds :
          /\ (/\ IsStep("verifyEmail")
              /\ users[id].verification_token = last'.req.body.token
              /\ ~users[id].is_verified
              /\ users[id].verification_token_expires < now) =>
                 /\ ~users'[id].is_verified
                 /\ last'.res.status = 400
          /\ (/\ IsStep("resendVerification")
              /\ id \in Addressed(last'.req.body.email)
              /\ ~users[id].is_verified
              /\ users[id].verification_token_expires < now) =>
                 /\ last'.res.status = 200
                 /\ users'[id].verification_token # users[id].verification_token
                 /\ users'[id].verification_token = last'.mail.token
                 /\ users'[id].verification_token_expires = now + 24 * 60 * 60 * 1000
          /\ (/\ last.req.op = "resendVerification"
              /\ last.mail.kind = "verification"
              /\ IsStep("verifyEmail")
              /\ last'.req.body.token = last.mail.token
              /\ users[id].verification_token = last.mail.token
              /\ now <= users[id].verification_token_expires) =>
                 /\ last'.res.status = 200
                 /\ users'[id].is_verified]_vars

(* C32 witness: after the lifetime of the token issued at registration had
   passed, the account was verified with the second token, the one a resend
   issued *)
C32_Witness ==
    /\ last.req.op = "verifyEmail"
    /\ last.res.status = 200
    /\ last.res.message = "Email verified successfully! You can now log in."
    /\ last.req.body.token = 2
    /\ nextToken = 2
    /\ now > VerificationTtlMs
    /\ \E id \in UserIds : users[id].is_verified /\ users[id].updated_at = now

(* request r's login, with a password that did not match, is at its UPDATE
   and answers in this step *)
FailedWrite(r) ==
    /\ inflight[r].op = "login"
    /\ inflight[r].pc = "update"
    /\ ~inflight[r].isMatch
    /\ inflight'[r].pc = "done"

(* request r's login passes the lockout check in this step and has its
   password compared, which does not match *)
ComparedWrong(r) ==
    /\ inflight[r].pc # "update"
    /\ inflight'[r].op = "login"
    /\ inflight'[r].pc = "update"
    /\ ~inflight'[r].isMatch

(* C33: a failed Login stores the login_attempts it read plus one, so that
   two failed Logins that both read n both store n + 1; and in every state
   the stored login_attempts is at most the number of wrong-password Logins
   completed since the counter was last reset. *)
C33_LastWriteWins ==
    [][\A id \in UserIds :
          /\ \A r \in Requests :
                (FailedWrite(r) /\ inflight[r].user_id = id) =>
                    users'[id].login_attempts = inflight[r].user.login_attempts + 1
          /\ users'[id].login_attempts <= failed'[id]]_vars

(* C34: a Login whose wrong password is compared was made when fewer than 5
   wrong-password Logins had completed since the last reset, and a
   wrong-password Login answered 401 is at most the 5th of them. *)
C34_BruteForceBound ==
    [][\A r \in Requests :
          /\ ComparedWrong(r) => failed[inflight'[r].user_id] < 5
          /\ (FailedWrite(r) /\ last'.res.status = 401) =>
                failed'[inflight[r].user_id] <= 5]_vars

(* C36: in every reachable state, however many failed Logins were made and
   however they interleaved, login_attempts is between 0 and 5. *)
C36_AttemptsBounded ==
    \A id \in UserIds : users[id].login_attempts \in 0..5

(* C36 witness: six wrong-password Logins have completed, the last of them
   made while another was in flight, and login_attempts is 4 *)
C36_Witness ==
    /\ failed[1] = 6
    /\ users[1].login_attempts = 4
    /\ \A r \in Requests : inflight[r].op = "login" /\ inflight[r].pc = "done"

(* C35: no Login, ResetPassword or ChangePassword, in whatever order they are
   made, leaves an account with lockout_until set and login_attempts below
   the threshold of 5 unless it found the account so. *)
C35_LockoutMeansThreshold ==
    [][\A id \in UserIds :
          (users[id].lockout_until # NULL => users[id].login_attempts >= 5) =>
              (users'[id].lockout_until # NULL => users'[id].login_attempts >= 5)]_vars

(* C35 witness: a Login with a wrong password was made on an account whose
   lockout had passed; lockout_until is still set and login_attempts is at the
   threshold *)
C35_Witness ==
    /\ last.req.op = "login"
    /\ failed[1] = 1
    /\ users[1].lockout_until # NULL
    /\ users[1].lockout_until < now
    /\ users[1].login_attempts >= 5

(* C37: in every state no two accounts hold the same e-mail address, upper
   and lower case being the same; a Register whose INSERT finds the address
   taken, by a request that passed the existence check at the same time, is
   answered 400 and adds no account, and one that does not is answered 201
   and adds exactly one. *)
C37_UniqueEmailUnderRace ==
    [][/\ \A i \in 1..Len(users'), j \in 1..Len(users') :
             i # j => toLowerCase(users'[i].user_email) # toLowerCase(users'[j].user_email)
       /\ \A r \in Requests :
             (/\ inflight[r].op = "register"
              /\ inflight[r].pc = "update"
              /\ inflight'[r].pc = "done") =>
                 IF \E id \in UserIds :
                       toLowerCase(users[id].user_email) = toLowerCase(inflight[r].email)
                 THEN /\ last'.res.status = 400
                      /\ users' = users
                 ELSE /\ last'.res.status = 201
                      /\ Len(users') = Len(users) + 1]_vars

(* C37 witness: two Register requests for one address both passed the
   existence check; one created the account, the other was answered 400 for
   the unique constraint, and the table holds one account *)
C37_Witness ==
    /\ \A r \in Requests : inflight[r].op = "register" /\ inflight[r].pc = "done"
    /\ Cardinality({r \in Requests : inflight[r].applied}) = 1
    /\ Len(users) = 1
    /\ last.res.status = 400
    /\ last.res.message = "A record with this value already exists"

(* C38: a ForgotPassword for an account that holds a reset token replaces it
   by another one, after which no account holds the older token; a
   ResetPassword with a token no account holds is answered 400 "Invalid or
   expired reset token" and changes nothing, while one with the token the
   account holds, not yet expired, is answered 200 and stores the new
   password. *)
C38_NewestResetTokenOnly ==
    [][/\ \A id \in UserIds :
             (/\ IsStep("forgotPassword")
              /\ id \in Addressed(last'.req.body.email)
              /\ users[id].reset_password_token # NULL) =>
                 /\ users'[id].reset_password_token # NULL
                 /\ \A other \in UserIds :
                       users'[other].reset_password_token # users[id].reset_password_token
       /\ IsStep("resetPassword") =>
             IF \A id \in UserIds : users[id].reset_password_token # last'.req.body.token
             THEN /\ last'.res.status = 400
                  /\ last'.res.message = "Invalid or expired reset token"
                  /\ users' = users
             ELSE \A id \in UserIds :
                     (/\ users[id].reset_password_token = last'.req.body.token
                      /\ users[id].reset_password_expires >= now) =>
                         /\ last'.res.status = 200
                         /\ users'[id].user_password =
                              <<"$2b$10$", last'.req.body.newPassword>>]_vars

(* C38 witness: after a second ForgotPassword, a ResetPassword with the first
   reset token was refused as invalid and the account still holds the second
   token *)
C38_Witness ==
    /\ last.req.op = "resetPassword"
    /\ last.req.body.token = 1
    /\ last.res.status = 400
    /\ last.res.message = "Invalid or expired reset token"
    /\ users[1].reset_password_token = 2

(* C39: a Login leaves the password hash, is_verified and the verification
   and reset tokens with their expiries as they were; a ResetPassword or
   ChangePassword leaves is_verified and the verification token; a
   VerifyEmail or ResendVerification leaves the password hash,
   login_attempts, lockout_until and the reset token. *)
C39_OwnAxisOnly ==
    [][\A id \in UserIds :
          /\ IsStep("login") =>
                /\ users'[id].user_password = users[id].user_password
                /\ users'[id].is_verified = users[id].is_verified
                /\ users'[id].verification_token = users[id].verification_token
                /\ users'[id].verification_token_expires = users[id].verification_token_expires
                /\ users'[id].reset_password_token = users[id].reset_password_token
                /\ users'[id].reset_password_expires = users[id].reset_password_expires
          /\ (IsStep("resetPassword") \/ IsStep("changePassword")) =>
                /\ users'[id].is_verified = users[id].is_verified
                /\ users'[id].verification_token = users[id].verification_token
                /\ users'[id].verification_token_expires = users[id].verification_token_expires
          /\ (IsStep("verifyEmail") \/ IsStep("resendVerification")) =>
                /\ users'[id].user_password = users[id].user_password
                /\ users'[id].login_attempts = users[id].login_attempts
                /\ users'[id].lockout_until = users[id].lockout_until
                /\ users'[id].reset_password_token = users[id].reset_password_token
                /\ users'[id].reset_password_expires = users[id].reset_password_expires]_vars

(* C39 witness: a VerifyEmail verified an account that had failed a login and
   had a reset token outstanding; the counter and the reset token are still
   there *)
C39_Witness ==
    /\ last.req.op = "verifyEmail"
    /\ last.res.status = 200
    /\ \E id \in UserIds :
          /\ users[id].is_verified
          /\ users[id].updated_at = now
          /\ users[id].login_attempts > 0
          /\ users[id].reset_password_token # NULL

(* C40: no step removes an account or changes the user_id or user_email of
   one; the table grows only by a Register, one account at a time. *)
C40_AccountsKept ==
    [][/\ Len(users') >= Len(users)
       /\ Len(users') > Len(users) =>
             /\ IsStep("register")
             /\ Len(users') = Len(users) + 1
       /\ \A id \in UserIds :
             /\ users'[id].user_id = users[id].user_id
             /\ users'[id].user_email = users[id].user_email]_vars

(* C40 witness: the account registered as Jane@X.com has had its password
   reset and still has its id and its e-mail address *)
C40_Witness ==
    /\ last.req.op = "resetPassword"
    /\ last.res.status = 200
    /\ Len(users) = 1
    /\ users[1].user_id = 1
    /\ users[1].user_email = "jane@x.com"
    /\ users[1].user_password = <<"$2b$10$", last.req.body.newPassword>>

====
